---- MODULE Spec2Model ----
(***************************************************************************)
(* NovelTranslate: the translation orchestration engine.                   *)
(*                                                                         *)
(*   app/core/translator.py               Translator (attempt policy and   *)
(*                                        the two provider adapters)       *)
(*   app/core/translation_orchestrator.py TranslationOrchestrator (the     *)
(*                                        coordinator thread, the worker   *)
(*                                        pool, pause/cancel signals)      *)
(*   app/core/app_state.py                AppState                         *)
(*   app/core/config_manager.py           ConfigManager.get_config         *)
(*                                                                         *)
(* Two specifications share the variables:                                 *)
(*   Spec   the orchestrator driven by a caller thread (start, pause,      *)
(*          resume, cancel, set_max_concurrent_chapters), its coordinator  *)
(*          thread and its pool workers, one atomic action per access to   *)
(*          shared state;                                                  *)
(*   SpecT  Translator.translate applied to inputs drawn from bounded sets.*)
(***************************************************************************)
EXTENDS Integers, Sequences, FiniteSets, TLC

VARIABLES
    \* ---- AppState (app_state.py) ----
    active_config_name,     \* None | a configuration name
    chapters,               \* epub_data["chapters_meta"]: sequence of chapter_meta
    \* ---- TranslationOrchestrator fields (__init__, lines 37-52) ----
    is_running,
    is_paused,              \* threading.Event: TRUE = set = NOT paused
    should_cancel,          \* threading.Event: TRUE = set
    total_chapters,
    completed_chapters,
    failed_chapters,
    max_concurrent_chapters,
    chapters_lock,          \* 0 = free, c = held by the worker of chapter c
    project_dir,            \* None | "dir"
    \* ---- the coordinator thread (_translation_worker) ----
    co_pc,                  \* "idle" = no coordinator thread alive
    config,                 \* the local `config`
    todo,                   \* the local `chapters_to_translate`
    \* ---- ThreadPoolExecutor ----
    pool_size,              \* max_workers of the run's executor
    queue,                  \* its work queue: chapters submitted, not yet taken
    job,                    \* per chapter: the future / the worker's position
    result,                 \* per chapter: the worker's local `result`
    yielded,                \* futures as_completed has handed to the loop
    \* ---- the caller (UI) thread ----
    ui_pc,
    \* ---- environment and observations ----
    run_events,             \* event types the callback got from the coordinator
    chapter_events,         \* per chapter: progress statuses the callback got
    cb_raised,              \* per chapter: the event on which the callback raised
    behav,                  \* per chapter: the provider's behaviour for its call
    provider_calls,         \* per chapter: provider calls made in the current run
    files,                  \* chapters whose files were written in the current run
    manifests,              \* manifests written in the current run
    progress_percentage,    \* progress_percentage of the latest event that carried one
    \* ---- history ----
    runs,                   \* accepted start() calls so far
    at_start,               \* chapters as they were at the last accepted start()
    prev_completed,         \* completed_chapters just before that start()
    cancel_returned,        \* cancel() has returned during the current run
    resumed,                \* a pause() was followed by resume() in the current run
    woken,                  \* chapters whose job returned False from the pause loop (line 242)
    run_state,              \* "Idle" | "Running" | "Completed" | "Cancelled" | "Failed"
    \* ---- Translator.translate applied on its own (SpecT) ----
    t_pc,
    t_in,
    t_out,
    \* ---- one job with translate() taken candidate by candidate (SpecJ) ----
    j_pc,                   \* the worker's position in the job and in translate()
    j_in,                   \* the configuration it was given, the provider's behaviour
    j_pos,                  \* the fallback entry translate() is at
    j_acc,                  \* the attempts and provider calls so far
    j_out,                  \* what translate() returned
    \* ---- start_translation called from two threads (SpecS) ----
    s_pc,                   \* per caller: its position in start_translation
    s_ret,                  \* per caller: what its call returned
    s_threads               \* coordinator threads started and not yet ended

ovars == <<active_config_name, chapters, is_running, is_paused, should_cancel,
           total_chapters, completed_chapters, failed_chapters,
           max_concurrent_chapters, chapters_lock, project_dir, co_pc, config,
           todo, pool_size, queue, job, result, yielded, ui_pc, run_events,
           chapter_events, cb_raised, behav, provider_calls, files, manifests, progress_percentage,
           runs, at_start, prev_completed, cancel_returned, resumed, woken,
           run_state>>
jvars == <<j_pc, j_in, j_pos, j_acc, j_out>>
svars == <<s_pc, s_ret, s_threads>>
tvars == <<t_pc, t_in, t_out, jvars, svars>>
vars == <<ovars, tvars>>

(***************************************************************************)
(* Bounds of the model.                                                    *)
(***************************************************************************)
NumChapters == 2        \* chapters of the loaded document
MaxRuns == 2            \* accepted start() calls in one behaviour
MaxChain == 2           \* entries of a fallback chain (SpecT)

(***************************************************************************)
(* Program constants.                                                      *)
(***************************************************************************)
max_retries == 3                \* Translator.__init__
DefaultConcurrency == 3         \* TranslationOrchestrator.__init__
MinConcurrency == 1             \* set_max_concurrent_chapters
MaxConcurrency == 10            \* set_max_concurrent_chapters

\* TranslationUpdate.progress_percentage: the default at line 26 (None), the
\* literal 100.0 of the complete events at 136 and 207, and the quotient of
\* 269-271, (completed_chapters / total_chapters) * 100, kept to whole percent
NoProgress == -1
CompleteProgress == 100
Percentage(done, total) == (done * 100) \div total

\* Python's None, one per kind of value it stands in for (TLC compares only
\* values of one kind): a character string, a record, a message.
None == <<"None">>
NoneRec == [none |-> TRUE]
NoneMsg == "None"

(***************************************************************************)
(* Strings the code inspects are sequences of characters, so that          *)
(* str.startswith and str.strip are computed and not assumed.              *)
(***************************************************************************)
StartsWith(s, p) == Len(s) >= Len(p) /\ SubSeq(s, 1, Len(p)) = p

RECURSIVE LStrip(_)
LStrip(s) == IF s # <<>> /\ Head(s) = " " THEN LStrip(Tail(s)) ELSE s

RECURSIVE RStrip(_)
RStrip(s) ==
    IF s # <<>> /\ s[Len(s)] = " " THEN RStrip(SubSeq(s, 1, Len(s) - 1)) ELSE s

Strip(s) == RStrip(LStrip(s))

\* Python truthiness of an Optional[str]: None and "" are false.
Truthy(s) == s # None /\ s # <<>>

GPT_4O == <<"g", "p", "t", "-", "4", "o">>
GPT_4 == <<"G", "P", "T", "-", "4">>
GEMINI_PRO == <<"g", "e", "m", "i", "n", "i", "-", "2", ".", "5">>
CLAUDE == <<"c", "l", "a", "u", "d", "e", "-", "4">>

(***************************************************************************)
(* translator.py                                                           *)
(***************************************************************************)
TranslationResult(success, text, error_message, model_used) ==
    [success |-> success, text |-> text, error_message |-> error_message,
     model_used |-> model_used]

\* What a provider answers for `text` under `prompt`: a value that records
\* what it was asked.
ProviderText(model, prompt, text) == [of |-> text, by |-> model, with |-> prompt]

\* One provider call, as the log of a translate() keeps it.
ProviderCall(provider, model, prompt) ==
    [provider |-> provider, model |-> model, prompt |-> prompt]

\* _translate_openai: `outcome` is what the provider does with the request:
\* "ok", "empty" (a response whose message.content is None, which line 169
\* passes on) or "error" (any exception of the client, all caught at 179-194).
\* Returns the result and the provider calls made.
TranslateOpenAI(text, model, prompt, api_key, outcome) ==
    IF ~Truthy(api_key)
    THEN [result |-> TranslationResult(FALSE, NoneRec, "OpenAI API key not provided", None),
          calls |-> <<>>]
    ELSE [result |->
              IF outcome = "ok"
              THEN TranslationResult(TRUE, ProviderText(model, prompt, text), NoneMsg, model)
              ELSE IF outcome = "empty"
              THEN TranslationResult(TRUE, NoneRec, NoneMsg, model)
              ELSE TranslationResult(FALSE, NoneRec, "OpenAI API error", None),
          calls |-> <<ProviderCall("openai", model, prompt)>>]

\* _translate_gemini: an "empty" response (not response.text, 233-236) is a
\* failure
TranslateGemini(text, model, prompt, api_key, outcome) ==
    IF ~Truthy(api_key)
    THEN [result |-> TranslationResult(FALSE, NoneRec, "Gemini API key not provided", None),
          calls |-> <<>>]
    ELSE [result |->
              IF outcome = "ok"
              THEN TranslationResult(TRUE, ProviderText(model, prompt, text), NoneMsg, model)
              ELSE IF outcome = "empty"
              THEN TranslationResult(FALSE, NoneRec, "Gemini returned empty response", None)
              ELSE TranslationResult(FALSE, NoneRec, "Gemini translation failed", None),
          calls |-> <<ProviderCall("gemini", model, prompt)>>]

\* What the try block of _attempt_translation (116-125) comes to: a return
\* with a TranslationResult, or an exception on its way to the except clause
\* of line 127.
Returned(r) == [raised |-> FALSE, result |-> r.result, calls |-> r.calls]
RaisedException == [raised |-> TRUE, result |-> NoneRec, calls |-> <<>>]

\* The try block with "raise ValueError" in place of the return at 123-125.
DispatchModelUnsupportedRaises(text, model, prompt, openai_key, gemini_key, outcome) ==
    IF StartsWith(model, <<"g", "p", "t">>) \/ StartsWith(model, <<"G", "P", "T">>)
    THEN Returned(TranslateOpenAI(text, model, prompt, openai_key, outcome))
    ELSE IF StartsWith(model, <<"g", "e", "m", "i", "n", "i">>)
    THEN Returned(TranslateGemini(text, model, prompt, gemini_key, outcome))
    ELSE RaisedException

\* The body of the try block of _attempt_translation (116-125): the dispatch
\* on the model identifier's prefix.  Every branch returns, and both adapters
\* catch every exception themselves (191, 245).
DispatchModel(text, model, prompt, openai_key, gemini_key, outcome) ==
    IF StartsWith(model, <<"g", "p", "t">>) \/ StartsWith(model, <<"G", "P", "T">>)
    THEN Returned(TranslateOpenAI(text, model, prompt, openai_key, outcome))
    ELSE IF StartsWith(model, <<"g", "e", "m", "i", "n", "i">>)
    THEN Returned(TranslateGemini(text, model, prompt, gemini_key, outcome))
    ELSE Returned([result |-> TranslationResult(FALSE, NoneRec, "Unsupported model", None),
                   calls |-> <<>>])

\* The retry loop of _attempt_translation: for attempt in range(max_retries).
\* A pass through the try block that returns ends the loop with what the
\* dispatch returned, success or not (118, 121, 123).  A pass that raises
\* goes through the except clause (127-135) to the next pass.  With no pass
\* left the code falls to the return at 137.
RECURSIVE RetryLoop(_, _, _, _, _, _, _)
RetryLoop(attempt, text, model, prompt, openai_key, gemini_key, outcome) ==
    IF attempt >= max_retries
    THEN [result |-> TranslationResult(FALSE, NoneRec, "Failed after attempts", model),
          calls |-> <<>>]
    ELSE LET r == DispatchModel(text, model, prompt, openai_key, gemini_key, outcome)
         IN  IF r.raised
             THEN LET rest == RetryLoop(attempt + 1, text, model, prompt,
                                        openai_key, gemini_key, outcome)
                  IN  [result |-> rest.result, calls |-> r.calls \o rest.calls]
             ELSE [result |-> r.result, calls |-> r.calls]

\* _attempt_translation
AttemptTranslation(text, model, prompt, openai_key, gemini_key, outcome) ==
    RetryLoop(0, text, model, prompt, openai_key, gemini_key, outcome)

\* dict.get(key, default) on a fallback entry: the default only when the key
\* is absent.  A record without the field models an entry without the key.
GetPrompt(fallback, default) ==
    IF "prompt" \in DOMAIN fallback THEN fallback.prompt ELSE default

\* What the log of a translate() keeps of one call of _attempt_translation:
\* the candidate's position (0 = primary, i = i-th fallback entry), its
\* model, its prompt, the provider calls it made, whether it succeeded and
\* the error message it returned.
Attempt(pos, model, prompt, r) ==
    [pos |-> pos, model |-> model, prompt |-> prompt, calls |-> Len(r.calls),
     success |-> r.result.success, error |-> r.result.error_message]

RECURSIVE FallbackLoop(_, _, _, _, _, _, _)

\* FallbackLoop without the return at line 100: the loop goes on after a
\* success and the last result stands.
FallbackLoopNoReturn(i, text, cfg, openai_key, gemini_key, outcomes, acc) ==
    IF i > Len(cfg.fallback_chain)
    THEN [result |-> IF acc.last.success THEN acc.last
                     ELSE TranslationResult(FALSE, NoneRec,
              "All translation attempts failed. Check your API keys and model availability.",
              None),
          attempts |-> acc.attempts, calls |-> acc.calls]
    ELSE LET fallback == cfg.fallback_chain[i]
             r == AttemptTranslation(text, fallback.llm, cfg.prompt,
                                     openai_key, gemini_key, outcomes[i])
         IN  IF ~Truthy(fallback.llm)
             THEN FallbackLoop(i + 1, text, cfg, openai_key, gemini_key, outcomes, acc)
             ELSE FallbackLoop(i + 1, text, cfg, openai_key, gemini_key, outcomes,
                               [attempts |-> Append(acc.attempts,
                                                    Attempt(i, fallback.llm, cfg.prompt, r)),
                                calls |-> acc.calls \o r.calls,
                                last |-> IF r.result.success THEN r.result ELSE acc.last])

\* FallbackLoop with "break" for the "continue" of line 93: an entry without
\* a model ends the chain.
FallbackLoopUnsetEnds(i, text, cfg, openai_key, gemini_key, outcomes, acc) ==
    IF i > Len(cfg.fallback_chain) \/ ~Truthy(cfg.fallback_chain[i].llm)
    THEN [result |-> TranslationResult(FALSE, NoneRec,
              "All translation attempts failed. Check your API keys and model availability.",
              None),
          attempts |-> acc.attempts, calls |-> acc.calls]
    ELSE LET fallback == cfg.fallback_chain[i]
             fallback_prompt == GetPrompt(fallback, cfg.prompt)
             r == AttemptTranslation(text, fallback.llm, fallback_prompt,
                                     openai_key, gemini_key, outcomes[i])
             acc2 == [attempts |-> Append(acc.attempts,
                                          Attempt(i, fallback.llm, fallback_prompt, r)),
                      calls |-> acc.calls \o r.calls,
                      last |-> r.result]
         IN  IF r.result.success
             THEN [result |-> r.result, attempts |-> acc2.attempts, calls |-> acc2.calls]
             ELSE FallbackLoop(i + 1, text, cfg, openai_key, gemini_key, outcomes, acc2)

\* The fallback loop of translate (85-106), from entry i on.  `outcomes[p]` is
\* the provider's behaviour for candidate p.  `acc` carries the attempts and
\* the provider calls so far (and the primary's result).
FallbackLoop(i, text, cfg, openai_key, gemini_key, outcomes, acc) ==
    IF i > Len(cfg.fallback_chain)
    THEN [result |-> TranslationResult(FALSE, NoneRec,
              "All translation attempts failed. Check your API keys and model availability.",
              None),
          attempts |-> acc.attempts, calls |-> acc.calls]
    ELSE LET fallback == cfg.fallback_chain[i]
             fallback_llm == fallback.llm
             fallback_prompt == GetPrompt(fallback, cfg.prompt)
         IN  IF ~Truthy(fallback_llm)
             THEN FallbackLoop(i + 1, text, cfg, openai_key, gemini_key, outcomes, acc)
             ELSE LET r == AttemptTranslation(text, fallback_llm, fallback_prompt,
                                              openai_key, gemini_key, outcomes[i])
                      acc2 == [attempts |-> Append(acc.attempts,
                                                   Attempt(i, fallback_llm, fallback_prompt, r)),
                               calls |-> acc.calls \o r.calls,
                               last |-> r.result]
                  IN  IF r.result.success
                      THEN [result |-> r.result, attempts |-> acc2.attempts,
                            calls |-> acc2.calls]
                      ELSE FallbackLoop(i + 1, text, cfg, openai_key, gemini_key,
                                        outcomes, acc2)

\* translate with "if not text" alone at line 63: a text of blanks passes.
TranslateBlankTextAccepted(text, cfg, openai_key, gemini_key, outcomes) ==
    IF ~Truthy(text)
    THEN [result |-> TranslationResult(FALSE, NoneRec, "Empty text provided", None),
          attempts |-> <<>>, calls |-> <<>>]
    ELSE IF cfg = NoneRec
    THEN [result |-> TranslationResult(FALSE, NoneRec, "No configuration provided", None),
          attempts |-> <<>>, calls |-> <<>>]
    ELSE IF Truthy(cfg.primary_llm)
    THEN LET r == AttemptTranslation(text, cfg.primary_llm, cfg.prompt,
                                     openai_key, gemini_key, outcomes[0])
             acc == [attempts |-> <<Attempt(0, cfg.primary_llm, cfg.prompt, r)>>,
                     calls |-> r.calls, last |-> r.result]
         IN  IF r.result.success
             THEN [result |-> r.result, attempts |-> acc.attempts, calls |-> acc.calls]
             ELSE FallbackLoop(1, text, cfg, openai_key, gemini_key, outcomes, acc)
    ELSE FallbackLoop(1, text, cfg, openai_key, gemini_key, outcomes,
                      [attempts |-> <<>>, calls |-> <<>>,
                       last |-> TranslationResult(FALSE, NoneRec, NoneMsg, None)])

\* Translator.translate
Translate(text, cfg, openai_key, gemini_key, outcomes) ==
    IF ~Truthy(text) \/ Strip(text) = <<>>
    THEN [result |-> TranslationResult(FALSE, NoneRec, "Empty text provided", None),
          attempts |-> <<>>, calls |-> <<>>]
    ELSE IF cfg = NoneRec
    THEN [result |-> TranslationResult(FALSE, NoneRec, "No configuration provided", None),
          attempts |-> <<>>, calls |-> <<>>]
    ELSE IF Truthy(cfg.primary_llm)
    THEN LET r == AttemptTranslation(text, cfg.primary_llm, cfg.prompt,
                                     openai_key, gemini_key, outcomes[0])
             acc == [attempts |-> <<Attempt(0, cfg.primary_llm, cfg.prompt, r)>>,
                     calls |-> r.calls, last |-> r.result]
         IN  IF r.result.success
             THEN [result |-> r.result, attempts |-> acc.attempts, calls |-> acc.calls]
             ELSE FallbackLoop(1, text, cfg, openai_key, gemini_key, outcomes, acc)
    ELSE FallbackLoop(1, text, cfg, openai_key, gemini_key, outcomes,
                      [attempts |-> <<>>, calls |-> <<>>,
                       last |-> TranslationResult(FALSE, NoneRec, NoneMsg, None)])

(***************************************************************************)
(* translation_orchestrator.py, app_state.py, config_manager.py            *)
(***************************************************************************)
Chapters == 1..NumChapters
Loaded == 1..Len(chapters)

\* A chapter_meta as _process_successful_epub_parse creates it.  The keys
\* "model_used" and "error" are absent then; chapter_meta.get reads None.
NewChapter ==
    [original_text |-> <<"a">>, translated_text |-> NoneRec, status |-> "pending",
     model_used |-> None, error |-> NoneMsg]

\* ConfigManager.configs: the one stored configuration, a primary model with
\* an empty fallback chain (SpecT covers the chains).
StoredConfig ==
    [primary_llm |-> GPT_4O, prompt |-> <<"P">>, fallback_chain |-> <<>>]
ConfigNames == {"cfg", "gone"}

\* ConfigManager.get_config: self.configs.get(name)
GetConfig(name) == IF name = "cfg" THEN StoredConfig ELSE NoneRec

\* _load_api_keys: both credentials are stored in the keyring.
LoadApiKeys == [openai_api_key |-> <<"k">>, gemini_api_key |-> <<"k">>]

\* The provider's behaviour for the candidates of one chapter's translate():
\* candidate 0 is the primary.
RunBehaviours == [0..Len(StoredConfig.fallback_chain) -> {"ok", "empty", "error"}]
\* No translate() was called for the chapter in this run.
NoBehaviour == [p \in 0..Len(StoredConfig.fallback_chain) |-> "none"]

\* Positions of a pool job past its start and before its return.
Active == {"w239", "w244", "w247", "w256", "w260", "w280", "w293", "w296"}
Submitted == { c \in Chapters : job[c] # "none" }
Finished == { c \in Chapters : job[c] = "done" }
InProgress == { c \in Loaded : chapters[c].status = "in_progress" }

OInit ==
    /\ active_config_name = NoneMsg
    /\ chapters = <<>>
    /\ is_running = FALSE
    /\ is_paused = TRUE
    /\ should_cancel = FALSE
    /\ total_chapters = 0
    /\ completed_chapters = 0
    /\ failed_chapters = 0
    /\ max_concurrent_chapters = DefaultConcurrency
    /\ chapters_lock = 0
    /\ project_dir = NoneMsg
    /\ co_pc = "idle"
    /\ config = NoneRec
    /\ todo = <<>>
    /\ pool_size = 0
    /\ queue = <<>>
    /\ job = [c \in Chapters |-> "none"]
    /\ result = [c \in Chapters |-> NoneRec]
    /\ yielded = {}
    /\ ui_pc = "idle"
    /\ run_events = <<>>
    /\ chapter_events = [c \in Chapters |-> <<>>]
    /\ cb_raised = [c \in Chapters |-> "none"]
    /\ behav = [c \in Chapters |-> NoBehaviour]
    /\ provider_calls = [c \in Chapters |-> 0]
    /\ files = {}
    /\ manifests = 0
    /\ progress_percentage = NoProgress
    /\ runs = 0
    /\ at_start = <<>>
    /\ prev_completed = 0
    /\ cancel_returned = FALSE
    /\ resumed = FALSE
    /\ woken = {}
    /\ run_state = "Idle"

(***************************************************************************)
(* The caller thread.                                                      *)
(***************************************************************************)
\* MainController._process_successful_epub_parse: the document's chapters,
\* all pending.  One document is loaded in a session.
LoadEpub(n) ==
    /\ ui_pc = "idle"
    /\ chapters = <<>>
    /\ chapters' = [c \in 1..n |-> NewChapter]
    /\ UNCHANGED <<active_config_name, is_running, is_paused, should_cancel,
                   total_chapters, completed_chapters, failed_chapters,
                   max_concurrent_chapters, chapters_lock, project_dir, co_pc,
                   config, todo, pool_size, queue, job, result, yielded, ui_pc,
                   run_events, chapter_events, cb_raised, behav, provider_calls,
                   files, manifests, progress_percentage, runs, at_start, prev_completed,
                   cancel_returned, resumed, run_state, woken, tvars>>

\* MainController.on_active_config_change.  The session's configuration is
\* chosen once, before the first start().
SetActiveConfig(name) ==
    /\ ui_pc = "idle"
    /\ active_config_name = NoneMsg
    /\ active_config_name' = name
    /\ UNCHANGED <<chapters, is_running, is_paused, should_cancel,
                   total_chapters, completed_chapters, failed_chapters,
                   max_concurrent_chapters, chapters_lock, project_dir, co_pc,
                   config, todo, pool_size, queue, job, result, yielded, ui_pc,
                   run_events, chapter_events, cb_raised, behav, provider_calls,
                   files, manifests, progress_percentage, runs, at_start, prev_completed,
                   cancel_returned, resumed, run_state, woken, tvars>>

\* start_translation, lines 58-66: one of the three tests is true and the
\* call is about to return False ("s60").
StartRejected ==
    /\ ui_pc = "idle"
    /\ \/ is_running
       \/ active_config_name = NoneMsg
       \/ chapters = <<>>
    /\ ui_pc' = "s60"
    /\ UNCHANGED <<active_config_name, chapters, is_running, is_paused,
                   should_cancel, total_chapters, completed_chapters,
                   failed_chapters, max_concurrent_chapters, chapters_lock,
                   project_dir, co_pc, config, todo, pool_size, queue, job,
                   result, yielded, run_events, chapter_events, cb_raised, behav,
                   provider_calls, files, manifests, progress_percentage, runs, at_start,
                   prev_completed, cancel_returned, resumed, run_state, woken, tvars>>

\* start_translation, lines 60, 63, 66: return False
StartReturnFalse ==
    /\ ui_pc = "s60"
    /\ ui_pc' = "idle"
    /\ UNCHANGED <<active_config_name, chapters, is_running, is_paused,
                   should_cancel, total_chapters, completed_chapters,
                   failed_chapters, max_concurrent_chapters, chapters_lock,
                   project_dir, co_pc, config, todo, pool_size, queue, job,
                   result, yielded, run_events, chapter_events, cb_raised, behav,
                   provider_calls, files, manifests, progress_percentage, runs, at_start,
                   prev_completed, cancel_returned, resumed, run_state, woken, tvars>>

\* start_translation without its test of is_running (58-60): the reset of
\* lines 68-74 whatever is_running is.
StartResetWhileRunning ==
    /\ ui_pc = "idle"
    /\ active_config_name # NoneMsg
    /\ chapters # <<>>
    /\ runs < MaxRuns
    /\ is_running' = TRUE
    /\ should_cancel' = FALSE
    /\ is_paused' = TRUE
    /\ total_chapters' = Len(chapters)
    /\ completed_chapters' = 0
    /\ failed_chapters' = 0
    \* the observations and the history start afresh with the run
    /\ runs' = runs + 1
    /\ at_start' = chapters
    /\ prev_completed' = completed_chapters
    /\ cancel_returned' = FALSE
    /\ resumed' = FALSE
    /\ woken' = {}
    /\ chapter_events' = [c \in Chapters |-> <<>>]
    /\ cb_raised' = [c \in Chapters |-> "none"]
    /\ behav' = [c \in Chapters |-> NoBehaviour]
    /\ provider_calls' = [c \in Chapters |-> 0]
    /\ files' = {}
    /\ manifests' = 0
    /\ progress_percentage' = NoProgress
    /\ job' = [c \in Chapters |-> "none"]
    /\ result' = [c \in Chapters |-> NoneRec]
    /\ queue' = <<>>
    /\ yielded' = {}
    /\ todo' = <<>>
    /\ config' = NoneRec
    /\ pool_size' = 0
    /\ UNCHANGED <<active_config_name, chapters, max_concurrent_chapters,
                   chapters_lock, ui_pc, tvars>>

\* start_translation, lines 68-74: what both later paths do first.
StartReset ==
    /\ ui_pc = "idle"
    /\ ~is_running
    /\ active_config_name # NoneMsg
    /\ chapters # <<>>
    /\ runs < MaxRuns
    /\ is_running' = TRUE
    /\ should_cancel' = FALSE
    /\ is_paused' = TRUE
    /\ total_chapters' = Len(chapters)
    /\ completed_chapters' = 0
    /\ failed_chapters' = 0
    \* the observations and the history start afresh with the run
    /\ runs' = runs + 1
    /\ at_start' = chapters
    /\ prev_completed' = completed_chapters
    /\ cancel_returned' = FALSE
    /\ resumed' = FALSE
    /\ woken' = {}
    /\ chapter_events' = [c \in Chapters |-> <<>>]
    /\ cb_raised' = [c \in Chapters |-> "none"]
    /\ behav' = [c \in Chapters |-> NoBehaviour]
    /\ provider_calls' = [c \in Chapters |-> 0]
    /\ files' = {}
    /\ manifests' = 0
    /\ progress_percentage' = NoProgress
    /\ job' = [c \in Chapters |-> "none"]
    /\ result' = [c \in Chapters |-> NoneRec]
    /\ queue' = <<>>
    /\ yielded' = {}
    /\ todo' = <<>>
    /\ config' = NoneRec
    /\ pool_size' = 0
    /\ UNCHANGED <<active_config_name, chapters, max_concurrent_chapters,
                   chapters_lock, ui_pc, tvars>>

\* Lines 76-88 with the thread started before the directory is set up: the
\* error event is sent and the coordinator runs all the same.
StartDirFailureThreadStarted ==
    /\ StartReset
    /\ project_dir' = project_dir
    /\ run_events' = <<"error">>
    /\ run_state' = "Failed"
    /\ co_pc' = "c111"

\* start_translation, lines 76-82: _setup_project_directory returned False.
\* The callback gets one error event and start returns False.
StartDirFailure ==
    /\ StartReset
    /\ project_dir' = project_dir
    /\ run_events' = <<"error">>
    /\ run_state' = "Failed"
    /\ co_pc' = co_pc

\* start_translation, lines 76 and 84-88: the directory exists, the
\* coordinator thread starts and start returns True.
StartAccepted ==
    /\ StartReset
    /\ project_dir' = "dir"
    /\ run_events' = <<>>
    /\ run_state' = "Running"
    /\ co_pc' = "c111"

\* pause_translation
Pause ==
    /\ ui_pc = "idle"
    /\ IF is_running
       THEN is_paused' = FALSE
       ELSE UNCHANGED is_paused
    /\ UNCHANGED resumed
    /\ UNCHANGED <<active_config_name, chapters, is_running, should_cancel,
                   total_chapters, completed_chapters, failed_chapters,
                   max_concurrent_chapters, chapters_lock, project_dir, co_pc,
                   config, todo, pool_size, queue, job, result, yielded, ui_pc,
                   run_events, chapter_events, cb_raised, behav, provider_calls,
                   files, manifests, progress_percentage, runs, at_start, prev_completed,
                   cancel_returned, run_state, woken, tvars>>

\* resume_translation
Resume ==
    /\ ui_pc = "idle"
    /\ IF is_running
       THEN is_paused' = TRUE /\ resumed' = (resumed \/ ~is_paused)
       ELSE UNCHANGED <<is_paused, resumed>>
    /\ UNCHANGED <<active_config_name, chapters, is_running, should_cancel,
                   total_chapters, completed_chapters, failed_chapters,
                   max_concurrent_chapters, chapters_lock, project_dir, co_pc,
                   config, todo, pool_size, queue, job, result, yielded, ui_pc,
                   run_events, chapter_events, cb_raised, behav, provider_calls,
                   files, manifests, progress_percentage, runs, at_start, prev_completed,
                   cancel_returned, run_state, woken, tvars>>

\* cancel_translation, lines 102-103: the test and should_cancel.set()
CancelBegin ==
    /\ ui_pc = "idle"
    /\ IF is_running
       THEN should_cancel' = TRUE /\ ui_pc' = "c104"
       ELSE UNCHANGED <<should_cancel, ui_pc>>
    /\ UNCHANGED <<active_config_name, chapters, is_running, is_paused,
                   total_chapters, completed_chapters, failed_chapters,
                   max_concurrent_chapters, chapters_lock, project_dir, co_pc,
                   config, todo, pool_size, queue, job, result, yielded,
                   run_events, chapter_events, cb_raised, behav, provider_calls,
                   files, manifests, progress_percentage, runs, at_start, prev_completed,
                   cancel_returned, resumed, run_state, woken, tvars>>

\* cancel_translation, line 104: is_paused.set(), and the return
CancelEnd ==
    /\ ui_pc = "c104"
    /\ is_paused' = TRUE
    /\ ui_pc' = "idle"
    /\ cancel_returned' = TRUE
    /\ UNCHANGED <<active_config_name, chapters, is_running, should_cancel,
                   total_chapters, completed_chapters, failed_chapters,
                   max_concurrent_chapters, chapters_lock, project_dir, co_pc,
                   config, todo, pool_size, queue, job, result, yielded,
                   run_events, chapter_events, cb_raised, behav, provider_calls,
                   files, manifests, progress_percentage, runs, at_start, prev_completed,
                   resumed, run_state, woken, tvars>>

\* set_max_concurrent_chapters
SetMaxConcurrentChapters(max_concurrent) ==
    /\ ui_pc = "idle"
    /\ IF MinConcurrency <= max_concurrent /\ max_concurrent <= MaxConcurrency
       THEN max_concurrent_chapters' = max_concurrent
       ELSE UNCHANGED max_concurrent_chapters
    /\ UNCHANGED <<active_config_name, chapters, is_running, is_paused,
                   should_cancel, total_chapters, completed_chapters,
                   failed_chapters, chapters_lock, project_dir, co_pc, config,
                   todo, pool_size, queue, job, result, yielded, ui_pc,
                   run_events, chapter_events, cb_raised, behav, provider_calls,
                   files, manifests, progress_percentage, runs, at_start, prev_completed,
                   cancel_returned, resumed, run_state, woken, tvars>>
\* The values the caller passes: below the range, in it, above it.
ConcurrencyInputs == {MinConcurrency - 1, MinConcurrency, MaxConcurrency + 1}

(***************************************************************************)
(* The coordinator thread: _translation_worker.  Every call of the         *)
(* callback may raise; inside the try block (110-214) that leads to the    *)
(* except clause at 216.                                                   *)
(***************************************************************************)
appv == <<active_config_name, chapters>>
flags == <<is_running, is_paused, should_cancel>>
counters == <<total_chapters, completed_chapters, failed_chapters>>
execv == <<pool_size, queue, job, result, yielded>>
chobs == <<chapter_events, cb_raised, behav, provider_calls, files>>
hist == <<runs, at_start, prev_completed, cancel_returned, resumed>>

\* The list comprehension at 126-130 without its condition: every chapter
\* from i on.
ChaptersToTranslateAll(i) == [j \in 1..(Len(chapters) - i + 1) |-> i + j - 1]

\* The chapters the list comprehension at 126-130 keeps, in order.
RECURSIVE ChaptersToTranslate(_)
ChaptersToTranslate(i) ==
    IF i > Len(chapters) THEN <<>>
    ELSE IF chapters[i].status # "completed"
         THEN <<i>> \o ChaptersToTranslate(i + 1)
         ELSE ChaptersToTranslate(i + 1)

\* lines 111-120: the "Starting translation..." status event; no
\* configuration under the active name: an error event and the return
CoConfigMissing ==
    /\ co_pc = "c111"
    /\ GetConfig(active_config_name) = NoneRec
    /\ config' = NoneRec
    /\ \E raised1 \in BOOLEAN :
          IF raised1
          THEN /\ run_events' = Append(run_events, "status")
               /\ run_state' = run_state
               /\ co_pc' = "c216"
          ELSE /\ run_events' = run_events \o <<"status", "error">>
               /\ run_state' = "Failed"
               /\ \E raised2 \in BOOLEAN : co_pc' = IF raised2 THEN "c216" ELSE "c224"
    /\ UNCHANGED <<appv, flags, counters, max_concurrent_chapters, chapters_lock,
                   project_dir, todo, execv, ui_pc, chobs, manifests, progress_percentage, hist, woken, tvars>>

\* lines 111-139: the first status event; every chapter is completed
\* already: the complete event and the return
CoAllCompleted ==
    /\ co_pc = "c111"
    /\ GetConfig(active_config_name) # NoneRec
    /\ ChaptersToTranslate(1) = <<>>
    /\ config' = GetConfig(active_config_name)
    /\ todo' = <<>>
    /\ \E raised1 \in BOOLEAN :
          IF raised1
          THEN /\ run_events' = Append(run_events, "status")
               /\ run_state' = run_state
               /\ progress_percentage' = progress_percentage
               /\ co_pc' = "c216"
          ELSE /\ run_events' = run_events \o <<"status", "complete">>
               /\ run_state' = "Completed"
               /\ progress_percentage' = CompleteProgress
               /\ \E raised2 \in BOOLEAN : co_pc' = IF raised2 THEN "c216" ELSE "c224"
    /\ UNCHANGED <<appv, flags, counters, max_concurrent_chapters, chapters_lock,
                   project_dir, execv, ui_pc, chobs, manifests, hist, woken, tvars>>

\* lines 111-149: the first status event, the chapters to translate, the
\* second status event, and the executor with max_workers =
\* max_concurrent_chapters
CoCreatePool ==
    /\ co_pc = "c111"
    /\ GetConfig(active_config_name) # NoneRec
    /\ ChaptersToTranslate(1) # <<>>
    /\ config' = GetConfig(active_config_name)
    /\ todo' = ChaptersToTranslate(1)
    /\ \E raised1, raised2 \in BOOLEAN :
          /\ run_events' = IF raised1 THEN Append(run_events, "status")
                            ELSE run_events \o <<"status", "status">>
          /\ IF raised1 \/ raised2
             THEN co_pc' = "c216" /\ pool_size' = pool_size
             ELSE co_pc' = "c151" /\ pool_size' = max_concurrent_chapters
    /\ UNCHANGED <<appv, flags, counters, max_concurrent_chapters, chapters_lock,
                   project_dir, queue, job, result, yielded, ui_pc, chobs,
                   manifests, progress_percentage, hist, run_state, woken, tvars>>

\* lines 151-163: one pass of the submit loop that submits
CoSubmit ==
    /\ co_pc = "c151"
    /\ todo # <<>>
    /\ ~should_cancel
    /\ job' = [job EXCEPT ![Head(todo)] = "queued"]
    /\ queue' = Append(queue, Head(todo))
    /\ todo' = Tail(todo)
    /\ UNCHANGED <<appv, flags, counters, max_concurrent_chapters, chapters_lock,
                   project_dir, co_pc, config, pool_size, result, yielded, ui_pc,
                   run_events, chobs, manifests, progress_percentage, hist, run_state, woken, tvars>>

\* lines 151-153: the submit loop ends, exhausted or at the break
CoSubmitEnd ==
    /\ co_pc = "c151"
    /\ todo = <<>> \/ should_cancel
    /\ co_pc' = "c165"
    /\ UNCHANGED <<appv, flags, counters, max_concurrent_chapters, chapters_lock,
                   project_dir, config, todo, execv, ui_pc, run_events, chobs,
                   manifests, progress_percentage, hist, run_state, woken, tvars>>

\* lines 165-183: as_completed hands over a finished future; without a cancel
\* request its result is read and logged.  future.result() raises only what
\* the job raised, and the job catches every exception (296), so the except
\* clause at 184-199 is not entered.
CoCollect(c) ==
    /\ co_pc = "c165"
    /\ job[c] = "done"
    /\ c \notin yielded
    /\ ~should_cancel
    /\ yielded' = yielded \cup {c}
    /\ UNCHANGED <<appv, flags, counters, max_concurrent_chapters, chapters_lock,
                   project_dir, co_pc, config, todo, pool_size, queue, job,
                   result, ui_pc, run_events, chobs, manifests, progress_percentage, hist, run_state,
                   woken, tvars>>

\* lines 165-169: a finished future is handed over after a cancel request:
\* every future is cancelled (only those still queued can be) and the loop ends
CoCollectCancel(c) ==
    /\ co_pc = "c165"
    /\ job[c] = "done"
    /\ c \notin yielded
    /\ should_cancel
    /\ job' = [d \in Chapters |-> IF job[d] = "queued" THEN "cancelled" ELSE job[d]]
    /\ queue' = <<>>
    /\ yielded' = {}
    /\ co_pc' = "c201"
    /\ UNCHANGED <<appv, flags, counters, max_concurrent_chapters, chapters_lock,
                   project_dir, config, todo, pool_size, result, ui_pc,
                   run_events, chobs, manifests, progress_percentage, hist, run_state, woken, tvars>>

\* line 165: as_completed has handed over every submitted future
CoCollectEnd ==
    /\ co_pc = "c165"
    /\ Submitted \subseteq yielded
    /\ yielded' = {}
    /\ co_pc' = "c201"
    /\ UNCHANGED <<appv, flags, counters, max_concurrent_chapters, chapters_lock,
                   project_dir, config, todo, pool_size, queue, job, result,
                   ui_pc, run_events, chobs, manifests, progress_percentage, hist, run_state, woken, tvars>>

\* The end of the with block with shutdown(wait=False): it returns at once,
\* whatever the jobs are doing.
PoolShutDownNoWait == \A c \in Chapters : job[c] \in {"none", "done", "cancelled"} \cup Active

\* The end of the with block (147): executor.shutdown(wait=True) returns when
\* every job that was not cancelled has returned.
PoolShutDown == \A c \in Chapters : job[c] \in {"none", "done", "cancelled"}

\* line 201, the pool shut down: `if not self.should_cancel.is_set()` finds
\* no cancel request
CoNotCancelled ==
    /\ co_pc = "c201"
    /\ PoolShutDown
    /\ ~should_cancel
    /\ co_pc' = "c202"
    /\ UNCHANGED <<appv, flags, counters, max_concurrent_chapters, chapters_lock,
                   project_dir, config, todo, execv, ui_pc, run_events, chobs,
                   manifests, progress_percentage, hist, run_state, woken, tvars>>

\* lines 202-209: the manifest (_save_project_info) and the complete event
CoComplete ==
    /\ co_pc = "c202"
    /\ manifests' = manifests + 1
    /\ progress_percentage' = CompleteProgress
    /\ run_events' = Append(run_events, "complete")
    /\ run_state' = "Completed"
    /\ \E raised \in BOOLEAN : co_pc' = IF raised THEN "c216" ELSE "c224"
    /\ UNCHANGED <<appv, flags, counters, max_concurrent_chapters, chapters_lock,
                   project_dir, config, todo, execv, ui_pc, chobs, hist, woken, tvars>>

\* lines 210-214, the pool shut down, a cancel request: the "Translation cancelled" status event
CoCancelled ==
    /\ co_pc = "c201"
    /\ PoolShutDown
    /\ should_cancel
    /\ run_events' = Append(run_events, "status")
    /\ run_state' = "Cancelled"
    /\ \E raised \in BOOLEAN : co_pc' = IF raised THEN "c216" ELSE "c224"
    /\ UNCHANGED <<appv, flags, counters, max_concurrent_chapters, chapters_lock,
                   project_dir, config, todo, execv, ui_pc, chobs, manifests, progress_percentage,
                   hist, woken, tvars>>

\* lines 216-221: the callback raised inside the try block: an error event
\* (if the callback raises again the thread dies with it, after `finally`)
CoExcept ==
    /\ co_pc = "c216"
    /\ run_events' = Append(run_events, "error")
    /\ run_state' = "Failed"
    /\ co_pc' = "c224"
    /\ UNCHANGED <<appv, flags, counters, max_concurrent_chapters, chapters_lock,
                   project_dir, config, todo, execv, ui_pc, chobs, manifests, progress_percentage,
                   hist, woken, tvars>>

\* lines 223-224: finally: is_running = False, and the thread ends
CoFinally ==
    /\ co_pc = "c224"
    /\ is_running' = FALSE
    /\ co_pc' = "idle"
    /\ UNCHANGED <<appv, is_paused, should_cancel, counters,
                   max_concurrent_chapters, chapters_lock, project_dir, config,
                   todo, execv, ui_pc, run_events, chobs, manifests, progress_percentage, hist,
                   run_state, woken, tvars>>

(***************************************************************************)
(* The pool workers: one job per submitted chapter,                        *)
(* _translate_chapter_with_updates(chapter_meta, c, ...).  job[c] is the   *)
(* line the job's thread is at.                                            *)
(***************************************************************************)
\* Whether the executor lets a queued job start: a pool thread is free.
PoolHasFreeWorker == Cardinality({ d \in Chapters : job[d] \in Active }) < pool_size

\* A pool thread calling a job that begins at line 247, without the pause loop
\* and the cancel test of 239-245.
JobStartPastTests(c) ==
    /\ queue # <<>>
    /\ Head(queue) = c
    /\ PoolHasFreeWorker
    /\ queue' = Tail(queue)
    /\ job' = [job EXCEPT ![c] = "w247"]
    /\ UNCHANGED <<appv, flags, counters, max_concurrent_chapters, chapters_lock,
                   project_dir, co_pc, config, todo, pool_size, result, yielded,
                   ui_pc, run_events, chobs, manifests, progress_percentage,
                   hist, run_state, woken, tvars>>

\* A pool thread takes the oldest work item of the queue and calls the job.
JobStart(c) ==
    /\ queue # <<>>
    /\ Head(queue) = c
    /\ PoolHasFreeWorker
    /\ queue' = Tail(queue)
    /\ job' = [job EXCEPT ![c] = "w239"]
    /\ UNCHANGED <<appv, flags, counters, max_concurrent_chapters, chapters_lock,
                   project_dir, co_pc, config, todo, pool_size, result, yielded,
                   ui_pc, run_events, chobs, manifests, progress_percentage, hist, run_state, woken, tvars>>

\* The pause loop without its test of should_cancel (240-241): a waiting
\* worker waits for the pause signal alone.
AfterPauseTestIgnoresCancel(not_paused, cancel) ==
    IF not_paused THEN "w244" ELSE "w239"

\* The pause test giving up whenever the run is paused: the job returns
\* False instead of sleeping.
AfterPauseTestGivesUp(not_paused, cancel) ==
    IF not_paused THEN "w244" ELSE "done"

\* Where the job is after one pass of the pause loop (239-242): past the loop
\* ("w244") when the pause signal is set; else, having read the cancel
\* signal, returned False ("done") or, after the sleep, at the test again.
\* The two signals are read one after the other; a cancel request is never
\* withdrawn during a run, so reading them together gives the same results.
AfterPauseTest(not_paused, cancel) ==
    IF not_paused THEN "w244" ELSE IF cancel THEN "done" ELSE "w239"

\* lines 239-242: one pass of `while not self.is_paused.is_set()`
JobPauseLoop(c) ==
    /\ job[c] = "w239"
    /\ AfterPauseTest(is_paused, should_cancel) # "w239"
    /\ job' = [job EXCEPT ![c] = AfterPauseTest(is_paused, should_cancel)]
    /\ woken' = IF is_paused THEN woken ELSE woken \cup {c}
    /\ UNCHANGED <<appv, flags, counters, max_concurrent_chapters, chapters_lock,
                   project_dir, co_pc, config, todo, pool_size, queue, result,
                   yielded, ui_pc, run_events, chobs, manifests, progress_percentage, hist, run_state,
                   tvars>>

\* Lines 244-245 left out: the job goes on to line 247 whatever the cancel
\* signal says.
JobTestCancelSkipped(c) ==
    /\ job[c] = "w244"
    /\ job' = [job EXCEPT ![c] = "w247"]
    /\ UNCHANGED <<appv, flags, counters, max_concurrent_chapters, chapters_lock,
                   project_dir, co_pc, config, todo, pool_size, queue, result,
                   yielded, ui_pc, run_events, chobs, manifests,
                   progress_percentage, hist, run_state, woken, tvars>>

\* lines 244-245: if self.should_cancel.is_set(): return False
JobTestCancel(c) ==
    /\ job[c] = "w244"
    /\ job' = [job EXCEPT ![c] = IF should_cancel THEN "done" ELSE "w247"]
    /\ UNCHANGED <<appv, flags, counters, max_concurrent_chapters, chapters_lock,
                   project_dir, co_pc, config, todo, pool_size, queue, result,
                   yielded, ui_pc, run_events, chobs, manifests, progress_percentage, hist, run_state,
                   woken, tvars>>

\* Lines 247-258 with the event and the call of _translate_chapter indented
\* into the with block of line 247: the lock is kept through the provider
\* call.
JobMarkInProgressKeepsLock(c) ==
    /\ job[c] = "w247"
    /\ chapters_lock = 0
    /\ chapters_lock' = c
    /\ chapters' = [chapters EXCEPT ![c].status = "in_progress"]
    /\ job' = [job EXCEPT ![c] = "w256"]
    /\ UNCHANGED <<active_config_name, flags, counters, max_concurrent_chapters,
                   project_dir, co_pc, config, todo, pool_size,
                   queue, result, yielded, ui_pc, run_events, chobs, manifests, progress_percentage,
                   hist, run_state, woken, tvars>>

\* lines 247-248: with self.chapters_lock: status = "in_progress"
JobMarkInProgress(c) ==
    /\ job[c] = "w247"
    /\ chapters_lock = 0
    /\ chapters' = [chapters EXCEPT ![c].status = "in_progress"]
    /\ job' = [job EXCEPT ![c] = "w256"]
    /\ UNCHANGED <<active_config_name, flags, counters, max_concurrent_chapters,
                   chapters_lock, project_dir, co_pc, config, todo, pool_size,
                   queue, result, yielded, ui_pc, run_events, chobs, manifests, progress_percentage,
                   hist, run_state, woken, tvars>>

\* _translate_chapter (304-319), called at line 258
TranslateChapter(chapter_meta, cfg, api_keys, outcomes) ==
    IF ~Truthy(chapter_meta.original_text)
    THEN [result |-> TranslationResult(FALSE, NoneRec, "No original text found", None),
          attempts |-> <<>>, calls |-> <<>>]
    ELSE Translate(chapter_meta.original_text, cfg, api_keys.openai_api_key,
                   api_keys.gemini_api_key, outcomes)

\* lines 250-258: the in_progress progress event, outside the lock, and the
\* blocking call of _translate_chapter.  The provider behaves in one of the
\* ways of RunBehaviours (a job calls translate once, so the behaviour chosen
\* at the call is the chapter's behaviour for the run).
JobTranslate(c) ==
    /\ job[c] = "w256"
    /\ chapter_events' = [chapter_events EXCEPT ![c] = Append(@, "in_progress")]
    /\ \/ /\ cb_raised' = [cb_raised EXCEPT ![c] = "in_progress"]
          /\ job' = [job EXCEPT ![c] = "w296"]
          /\ UNCHANGED <<behav, result, provider_calls>>
       \/ \E b \in RunBehaviours :
             LET r == TranslateChapter(chapters[c], config, LoadApiKeys, b)
             IN  /\ behav' = [behav EXCEPT ![c] = b]
                 /\ result' = [result EXCEPT ![c] = r.result]
                 /\ provider_calls' = [provider_calls EXCEPT ![c] = @ + Len(r.calls)]
                 /\ job' = [job EXCEPT ![c] = "w260"]
                 /\ UNCHANGED cb_raised
    /\ UNCHANGED <<appv, flags, counters, max_concurrent_chapters, chapters_lock,
                   project_dir, co_pc, config, todo, pool_size, queue, yielded,
                   ui_pc, run_events, files, manifests, progress_percentage, hist, run_state, woken, tvars>>

\* Lines 260-267 without the increment of completed_chapters at 265.
JobRecordSuccessNoCount(c) ==
    /\ job[c] = "w260"
    /\ chapters_lock = 0
    /\ result[c].success
    /\ chapters_lock' = c
    /\ chapters' = [chapters EXCEPT ![c].translated_text = result[c].text,
                                    ![c].status = "completed",
                                    ![c].model_used = result[c].model_used]
    /\ files' = files \cup {c}
    /\ job' = [job EXCEPT ![c] = "w280"]
    /\ UNCHANGED <<active_config_name, flags, counters,
                   max_concurrent_chapters, project_dir, co_pc, config, todo,
                   pool_size, queue, result, yielded, ui_pc, run_events,
                   chapter_events, cb_raised, behav, provider_calls, manifests,
                   progress_percentage, hist, run_state, woken, tvars>>

\* lines 260-267: the lock is taken, a success is recorded and the chapter's
\* files are written
JobRecordSuccess(c) ==
    /\ job[c] = "w260"
    /\ chapters_lock = 0
    /\ result[c].success
    /\ chapters_lock' = c
    /\ chapters' = [chapters EXCEPT ![c].translated_text = result[c].text,
                                    ![c].status = "completed",
                                    ![c].model_used = result[c].model_used]
    /\ completed_chapters' = completed_chapters + 1
    /\ files' = files \cup {c}
    /\ job' = [job EXCEPT ![c] = "w280"]
    /\ UNCHANGED <<active_config_name, flags, total_chapters, failed_chapters,
                   max_concurrent_chapters, project_dir, co_pc, config, todo,
                   pool_size, queue, result, yielded, ui_pc, run_events,
                   chapter_events, cb_raised, behav, provider_calls, manifests, progress_percentage,
                   hist, run_state, woken, tvars>>

\* _save_chapter_files without its except clause (405-406): the failed write
\* raises into the job, which leaves the lock and goes to its own except
\* clause at 296.
JobRecordSuccessWriteRaises(c) ==
    /\ job[c] = "w260"
    /\ chapters_lock = 0
    /\ result[c].success
    /\ chapters' = [chapters EXCEPT ![c].translated_text = result[c].text,
                                    ![c].status = "completed",
                                    ![c].model_used = result[c].model_used]
    /\ completed_chapters' = completed_chapters + 1
    /\ chapters_lock' = 0
    /\ job' = [job EXCEPT ![c] = "w296"]
    /\ UNCHANGED <<active_config_name, flags, total_chapters, failed_chapters,
                   max_concurrent_chapters, project_dir, co_pc, config, todo,
                   pool_size, queue, result, yielded, ui_pc, run_events,
                   chapter_events, cb_raised, behav, provider_calls, files,
                   manifests, progress_percentage, hist, run_state, woken, tvars>>

\* lines 260-267 when a file cannot be written: _save_chapter_files (378-406)
\* catches the exception, logs it and returns; the job goes on as after a
\* good write, with no file of the chapter on disk.
JobRecordSuccessWriteFails(c) ==
    /\ job[c] = "w260"
    /\ chapters_lock = 0
    /\ result[c].success
    /\ chapters' = [chapters EXCEPT ![c].translated_text = result[c].text,
                                    ![c].status = "completed",
                                    ![c].model_used = result[c].model_used]
    /\ completed_chapters' = completed_chapters + 1
    /\ chapters_lock' = c
    /\ job' = [job EXCEPT ![c] = "w280"]
    /\ UNCHANGED <<active_config_name, flags, total_chapters, failed_chapters,
                   max_concurrent_chapters, project_dir, co_pc, config, todo,
                   pool_size, queue, result, yielded, ui_pc, run_events,
                   chapter_events, cb_raised, behav, provider_calls, files,
                   manifests, progress_percentage, hist, run_state, woken, tvars>>

\* lines 260, 282-285: the lock is taken and a failure is recorded
JobRecordFailure(c) ==
    /\ job[c] = "w260"
    /\ chapters_lock = 0
    /\ ~result[c].success
    /\ chapters_lock' = c
    /\ chapters' = [chapters EXCEPT ![c].status = "error",
                                    ![c].error = result[c].error_message]
    /\ failed_chapters' = failed_chapters + 1
    /\ job' = [job EXCEPT ![c] = "w293"]
    /\ UNCHANGED <<active_config_name, flags, total_chapters, completed_chapters,
                   max_concurrent_chapters, project_dir, co_pc, config, todo,
                   pool_size, queue, result, yielded, ui_pc, run_events, chobs,
                   manifests, progress_percentage, hist, run_state, woken, tvars>>

\* lines 273-281 and 287-294: the completed or error progress event, sent
\* with the lock held; leaving the with block, by return or by the callback's
\* exception, releases the lock
JobEmitResult(c) ==
    /\ job[c] \in {"w280", "w293"}
    /\ chapters_lock = c
    /\ LET status == IF job[c] = "w280" THEN "completed" ELSE "error"
       IN  /\ chapter_events' = [chapter_events EXCEPT ![c] = Append(@, status)]
           /\ progress_percentage' = IF status = "completed"
                                     THEN Percentage(completed_chapters, total_chapters)
                                     ELSE progress_percentage
           /\ \E raised \in BOOLEAN :
                 /\ job' = [job EXCEPT ![c] = IF raised THEN "w296" ELSE "done"]
                 /\ cb_raised' = [cb_raised EXCEPT ![c] = IF raised THEN status ELSE @]
    /\ chapters_lock' = 0
    /\ result' = [result EXCEPT ![c] = NoneRec]
    /\ UNCHANGED <<appv, flags, counters, max_concurrent_chapters, project_dir,
                   co_pc, config, todo, pool_size, queue, yielded, ui_pc,
                   run_events, behav, provider_calls, files, manifests, hist,
                   run_state, woken, tvars>>

\* The except clause at 296-302 sending an error progress event as well.
JobExceptWithEvent(c) ==
    /\ job[c] = "w296"
    /\ chapters_lock = 0
    /\ chapters' = [chapters EXCEPT ![c].status = "error", ![c].error = "exception"]
    /\ failed_chapters' = failed_chapters + 1
    /\ chapter_events' = [chapter_events EXCEPT ![c] = Append(@, "error")]
    /\ job' = [job EXCEPT ![c] = "done"]
    /\ UNCHANGED <<active_config_name, flags, total_chapters, completed_chapters,
                   max_concurrent_chapters, chapters_lock, project_dir, co_pc,
                   config, todo, pool_size, queue, result, yielded, ui_pc,
                   run_events, cb_raised, behav, provider_calls, files,
                   manifests, progress_percentage, hist, run_state, woken, tvars>>

\* lines 296-302: except Exception: the chapter is marked error and counted
\* failed, under the lock; return False
JobExcept(c) ==
    /\ job[c] = "w296"
    /\ chapters_lock = 0
    /\ chapters' = [chapters EXCEPT ![c].status = "error", ![c].error = "exception"]
    /\ failed_chapters' = failed_chapters + 1
    /\ job' = [job EXCEPT ![c] = "done"]
    /\ UNCHANGED <<active_config_name, flags, total_chapters, completed_chapters,
                   max_concurrent_chapters, chapters_lock, project_dir, co_pc,
                   config, todo, pool_size, queue, result, yielded, ui_pc,
                   run_events, chobs, manifests, progress_percentage, hist, run_state, woken, tvars>>

(***************************************************************************)
(* Spec: the orchestrator.                                                 *)
(***************************************************************************)
\* No job of SpecJ exists.
JOff ==
    /\ j_pc = "off"
    /\ j_in = NoneRec
    /\ j_pos = 0
    /\ j_acc = NoneRec
    /\ j_out = NoneRec

\* The two callers of SpecS: neither has called start_translation.
Callers == {1, 2}
SOff ==
    /\ s_pc = [t \in Callers |-> "idle"]
    /\ s_ret = [t \in Callers |-> "none"]
    /\ s_threads = 0

Init ==
    /\ OInit
    /\ t_pc = "off"
    /\ t_in = NoneRec
    /\ t_out = NoneRec
    /\ JOff
    /\ SOff

Next ==
    \/ \E n \in 1..NumChapters : LoadEpub(n)
    \/ \E name \in ConfigNames : SetActiveConfig(name)
    \/ StartRejected
    \/ StartReturnFalse
    \/ StartDirFailure
    \/ StartAccepted
    \/ Pause
    \/ Resume
    \/ CancelBegin
    \/ CancelEnd
    \/ \E v \in ConcurrencyInputs : SetMaxConcurrentChapters(v)
    \/ CoConfigMissing
    \/ CoAllCompleted
    \/ CoCreatePool
    \/ CoSubmit
    \/ CoSubmitEnd
    \/ \E c \in Chapters : CoCollect(c)
    \/ \E c \in Chapters : CoCollectCancel(c)
    \/ CoCollectEnd
    \/ CoNotCancelled
    \/ CoComplete
    \/ CoCancelled
    \/ CoExcept
    \/ CoFinally
    \/ \E c \in Chapters : JobStart(c)
    \/ \E c \in Chapters : JobPauseLoop(c)
    \/ \E c \in Chapters : JobTestCancel(c)
    \/ \E c \in Chapters : JobMarkInProgress(c)
    \/ \E c \in Chapters : JobTranslate(c)
    \/ \E c \in Chapters : JobRecordSuccess(c)
    \/ \E c \in Chapters : JobRecordFailure(c)
    \/ \E c \in Chapters : JobEmitResult(c)
    \/ \E c \in Chapters : JobExcept(c)

Spec == Init /\ [][Next]_vars

(***************************************************************************)
(* SpecFair: the orchestrator with its threads scheduled fairly.  The       *)
(* coordinator thread (threading.Thread at 84-88) and the pool's worker     *)
(* threads (ThreadPoolExecutor at 147-149) are operating-system threads:    *)
(* one that can take a step is eventually given the processor.  The caller  *)
(* is under no obligation to call anything.  Here the disk may refuse a     *)
(* chapter's files (JobRecordSuccessWriteFails); under Spec every write is  *)
(* good.                                                                    *)
(***************************************************************************)
CoStep ==
    \/ CoConfigMissing
    \/ CoAllCompleted
    \/ CoCreatePool
    \/ CoSubmit
    \/ CoSubmitEnd
    \/ \E c \in Chapters : CoCollect(c)
    \/ \E c \in Chapters : CoCollectCancel(c)
    \/ CoCollectEnd
    \/ CoNotCancelled
    \/ CoComplete
    \/ CoCancelled
    \/ CoExcept
    \/ CoFinally

JobStep(c) ==
    \/ JobStart(c)
    \/ JobPauseLoop(c)
    \/ JobTestCancel(c)
    \/ JobMarkInProgress(c)
    \/ JobTranslate(c)
    \/ JobRecordSuccess(c)
    \/ JobRecordSuccessWriteFails(c)
    \/ JobRecordFailure(c)
    \/ JobEmitResult(c)
    \/ JobExcept(c)

\* What the caller may do apart from a start that resets the state.
CallerStep ==
    \/ \E n \in 1..NumChapters : LoadEpub(n)
    \/ \E name \in ConfigNames : SetActiveConfig(name)
    \/ StartRejected
    \/ StartReturnFalse
    \/ Pause
    \/ Resume
    \/ CancelBegin
    \/ CancelEnd
    \/ \E v \in ConcurrencyInputs : SetMaxConcurrentChapters(v)

\* The session's first start_translation() that gets past the tests at 58-66.
FirstStart ==
    /\ runs = 0
    /\ StartDirFailure \/ StartAccepted

\* A later start_translation(), made once every chapter is completed.
StartWhenAllCompleted ==
    /\ runs > 0
    /\ \A c \in Loaded : chapters[c].status = "completed"
    /\ StartDirFailure \/ StartAccepted

\* A session whose caller starts a run on the chapters it loaded and starts
\* again only when nothing is left to translate.
NextFair ==
    \/ CallerStep
    \/ FirstStart
    \/ StartWhenAllCompleted
    \/ CoStep
    \/ \E c \in Chapters : JobStep(c)

SpecFair ==
    /\ Init
    /\ [][NextFair]_vars
    /\ WF_vars(CoStep)
    /\ \A c \in Chapters : WF_vars(JobStep(c))

\* SpecFair with the pause loop's polling: a waiting worker reads the pause
\* signal again every 0.1 s (time.sleep at 242), so a worker whose signal is
\* set again and again, each time for longer than that, does leave the loop.
SpecFairPolling ==
    /\ SpecFair
    /\ \A c \in Chapters : SF_vars(JobPauseLoop(c))

(***************************************************************************)
(* SpecT: Translator.translate on its own.  Init draws the text, the       *)
(* configuration, the two credentials and the provider's behaviour per     *)
(* candidate from bounded sets; TranslateCall applies translate.           *)
(***************************************************************************)
Outcomes == {"ok", "empty", "error"}
Texts == {None, <<>>, <<" ">>, <<" ", " ">>, <<" ", "a", " ">>, <<"a">>}
Keys == {None, <<"k">>}
PrimaryModels == {None, GPT_4O, GPT_4, GEMINI_PRO, CLAUDE}
FallbackEntries ==
    { [llm |-> None, prompt |-> <<"F">>],
      [llm |-> GPT_4O],
      [llm |-> GPT_4O, prompt |-> <<>>],
      [llm |-> GEMINI_PRO, prompt |-> <<"F">>],
      [llm |-> CLAUDE, prompt |-> <<"F">>] }
Chains == UNION { [1..n -> FallbackEntries] : n \in 0..MaxChain }
TConfigs ==
    { [primary_llm |-> m, prompt |-> <<"P">>, fallback_chain |-> ch] :
        m \in PrimaryModels, ch \in Chains }

TInputs ==
    [text : Texts, cfg : TConfigs \cup {NoneRec}, openai_key : Keys,
     gemini_key : Keys, outcomes : [0..MaxChain -> Outcomes]]

TranslateCall ==
    /\ t_pc = "ready"
    /\ t_out' = Translate(t_in.text, t_in.cfg, t_in.openai_key, t_in.gemini_key,
                          t_in.outcomes)
    /\ t_pc' = "done"
    /\ UNCHANGED <<t_in, ovars, jvars, svars>>

TInit ==
    /\ OInit
    /\ t_pc = "ready"
    /\ t_in \in TInputs
    /\ t_out = NoneRec
    /\ JOff
    /\ SOff

TNext == TranslateCall

SpecT == TInit /\ [][TNext]_vars

(***************************************************************************)
(* SpecS: start_translation called once by each of two threads, taken      *)
(* test by test (a thread switch can fall between any two of its lines).   *)
(* A coordinator thread is kept only as far as start_translation sees it:  *)
(* it is alive (s_threads) and its finally clause (223-224) clears         *)
(* is_running when it ends.                                                *)
(***************************************************************************)
SUnchanged ==
    UNCHANGED <<active_config_name, chapters, max_concurrent_chapters,
                chapters_lock, co_pc, config, todo, pool_size, queue, job,
                result, yielded, ui_pc, run_events, chapter_events, cb_raised,
                behav, provider_calls, files, manifests, progress_percentage,
                runs, at_start, prev_completed, cancel_returned, resumed, woken,
                run_state, t_pc, t_in, t_out, jvars>>

\* Caller t returns `value` from start_translation.
SReturn(t, value) ==
    /\ s_pc' = [s_pc EXCEPT ![t] = "ret"]
    /\ s_ret' = [s_ret EXCEPT ![t] = value]

\* Caller t calls start_translation.
SCall(t) ==
    /\ s_pc[t] = "idle"
    /\ s_pc' = [s_pc EXCEPT ![t] = "s58"]
    /\ UNCHANGED <<is_running, is_paused, should_cancel, total_chapters,
                   completed_chapters, failed_chapters, project_dir, s_ret,
                   s_threads>>
    /\ SUnchanged

\* lines 58-60: the test of is_running
STestRunning(t) ==
    /\ s_pc[t] = "s58"
    /\ IF is_running
       THEN SReturn(t, "false")
       ELSE s_pc' = [s_pc EXCEPT ![t] = "s62"] /\ UNCHANGED s_ret
    /\ UNCHANGED <<is_running, is_paused, should_cancel, total_chapters,
                   completed_chapters, failed_chapters, project_dir, s_threads>>
    /\ SUnchanged

\* lines 62-66: the tests of the configuration name and the chapters
STestInputs(t) ==
    /\ s_pc[t] = "s62"
    /\ IF active_config_name = NoneMsg \/ chapters = <<>>
       THEN SReturn(t, "false")
       ELSE s_pc' = [s_pc EXCEPT ![t] = "s68"] /\ UNCHANGED s_ret
    /\ UNCHANGED <<is_running, is_paused, should_cancel, total_chapters,
                   completed_chapters, failed_chapters, project_dir, s_threads>>
    /\ SUnchanged

\* lines 68-74: is_running is set, the signals and the counters are reset
SReset(t) ==
    /\ s_pc[t] = "s68"
    /\ is_running' = TRUE
    /\ should_cancel' = FALSE
    /\ is_paused' = TRUE
    /\ total_chapters' = Len(chapters)
    /\ completed_chapters' = 0
    /\ failed_chapters' = 0
    /\ s_pc' = [s_pc EXCEPT ![t] = "s76"]
    /\ UNCHANGED <<project_dir, s_ret, s_threads>>
    /\ SUnchanged

\* lines 76-82: _setup_project_directory; on failure start returns False
SSetupDirectory(t) ==
    /\ s_pc[t] = "s76"
    /\ \/ /\ project_dir' = "dir"
          /\ s_pc' = [s_pc EXCEPT ![t] = "s84"]
          /\ UNCHANGED s_ret
       \/ /\ project_dir' = project_dir
          /\ SReturn(t, "false")
    /\ UNCHANGED <<is_running, is_paused, should_cancel, total_chapters,
                   completed_chapters, failed_chapters, s_threads>>
    /\ SUnchanged

\* lines 84-88: the coordinator thread is started and start returns True
SStartThread(t) ==
    /\ s_pc[t] = "s84"
    /\ s_threads' = s_threads + 1
    /\ SReturn(t, "true")
    /\ UNCHANGED <<is_running, is_paused, should_cancel, total_chapters,
                   completed_chapters, failed_chapters, project_dir>>
    /\ SUnchanged

\* _translation_worker, 223-224: a coordinator thread ends
SCoordinatorEnds ==
    /\ s_threads > 0
    /\ is_running' = FALSE
    /\ s_threads' = s_threads - 1
    /\ UNCHANGED <<is_paused, should_cancel, total_chapters, completed_chapters,
                   failed_chapters, project_dir, s_pc, s_ret>>
    /\ SUnchanged

SNext ==
    \/ \E n \in 1..NumChapters : LoadEpub(n)
    \/ \E name \in ConfigNames : SetActiveConfig(name)
    \/ \E t \in Callers : SCall(t)
    \/ \E t \in Callers : STestRunning(t)
    \/ \E t \in Callers : STestInputs(t)
    \/ \E t \in Callers : SReset(t)
    \/ \E t \in Callers : SSetupDirectory(t)
    \/ \E t \in Callers : SStartThread(t)
    \/ SCoordinatorEnds

SpecS == Init /\ [][SNext]_vars

(***************************************************************************)
(* SpecJ: one pool job of an accepted run, with Translator.translate taken *)
(* one candidate at a time, beside a caller who pauses, resumes and        *)
(* cancels.  The coordinator and the other jobs stand still.               *)
(***************************************************************************)
\* The configurations the job may be given and the provider's behaviours.
JConfigs == { cfg \in TConfigs : cfg.primary_llm \in {None, GPT_4O} }
JInputs == [cfg : JConfigs, outcomes : [0..MaxChain -> Outcomes]]
JText == NewChapter.original_text

\* executor.submit at 155-162 and a pool thread taking the job: the worker
\* is at the pause loop with the configuration the coordinator read.
JHandOver ==
    /\ is_running
    /\ co_pc = "c111"
    /\ j_pc = "off"
    /\ j_pc' = "w239"
    /\ j_in' \in JInputs
    /\ j_acc' = [attempts |-> <<>>, calls |-> <<>>,
                 last |-> TranslationResult(FALSE, NoneRec, NoneMsg, None)]
    /\ UNCHANGED <<ovars, svars, t_pc, t_in, t_out, j_pos, j_out>>

\* lines 239-242
JPauseLoop ==
    /\ j_pc = "w239"
    /\ AfterPauseTest(is_paused, should_cancel) # "w239"
    /\ j_pc' = AfterPauseTest(is_paused, should_cancel)
    /\ UNCHANGED <<ovars, svars, t_pc, t_in, t_out, j_in, j_pos, j_acc, j_out>>

\* lines 244-245
JTestCancel ==
    /\ j_pc = "w244"
    /\ j_pc' = IF should_cancel THEN "done" ELSE "w258"
    /\ UNCHANGED <<ovars, svars, t_pc, t_in, t_out, j_in, j_pos, j_acc, j_out>>

\* line 258 and translator.py 63-74: translate() is called with the
\* chapter's text and the configuration; both tests pass and the primary
\* model is read
JCallTranslate ==
    /\ j_pc = "w258"
    /\ Truthy(JText) /\ Strip(JText) # <<>> /\ j_in.cfg # NoneRec
    /\ j_pc' = "t75"
    /\ UNCHANGED <<ovars, svars, t_pc, t_in, t_out, j_in, j_pos, j_acc, j_out>>

\* translator.py 75-82: the primary model, if set, is attempted
JPrimary ==
    /\ j_pc = "t75"
    /\ j_pos' = 1
    /\ IF Truthy(j_in.cfg.primary_llm)
       THEN LET r == AttemptTranslation(JText, j_in.cfg.primary_llm, j_in.cfg.prompt,
                                        LoadApiKeys.openai_api_key,
                                        LoadApiKeys.gemini_api_key, j_in.outcomes[0])
            IN  /\ j_acc' = [attempts |-> <<Attempt(0, j_in.cfg.primary_llm,
                                                     j_in.cfg.prompt, r)>>,
                             calls |-> r.calls, last |-> r.result]
                /\ IF r.result.success
                   THEN j_pc' = "w260" /\ j_out' = r.result
                   ELSE j_pc' = "t86" /\ j_out' = j_out
       ELSE j_pc' = "t86" /\ UNCHANGED <<j_acc, j_out>>
    /\ UNCHANGED <<ovars, svars, t_pc, t_in, t_out, j_in>>

\* translator.py 85-106: one pass of the loop over the fallback chain, or
\* the return after it
JFallback ==
    /\ j_pc = "t86"
    /\ IF j_pos > Len(j_in.cfg.fallback_chain)
       THEN /\ j_pc' = "w260"
            /\ j_out' = TranslationResult(FALSE, NoneRec,
                   "All translation attempts failed. Check your API keys and model availability.",
                   None)
            /\ UNCHANGED <<j_pos, j_acc>>
       ELSE LET fallback == j_in.cfg.fallback_chain[j_pos]
                fallback_prompt == GetPrompt(fallback, j_in.cfg.prompt)
            IN  IF ~Truthy(fallback.llm)
                THEN /\ j_pos' = j_pos + 1
                     /\ UNCHANGED <<j_pc, j_acc, j_out>>
                ELSE LET r == AttemptTranslation(JText, fallback.llm, fallback_prompt,
                                                 LoadApiKeys.openai_api_key,
                                                 LoadApiKeys.gemini_api_key,
                                                 j_in.outcomes[j_pos])
                     IN  /\ j_acc' = [attempts |-> Append(j_acc.attempts,
                                            Attempt(j_pos, fallback.llm, fallback_prompt, r)),
                                      calls |-> j_acc.calls \o r.calls,
                                      last |-> r.result]
                         /\ IF r.result.success
                            THEN j_pc' = "w260" /\ j_out' = r.result /\ j_pos' = j_pos
                            ELSE j_pc' = "t86" /\ j_out' = j_out /\ j_pos' = j_pos + 1
    /\ UNCHANGED <<ovars, svars, t_pc, t_in, t_out, j_in>>

JNext ==
    \/ \E n \in 1..NumChapters : LoadEpub(n)
    \/ \E name \in ConfigNames : SetActiveConfig(name)
    \/ StartAccepted
    \/ Pause
    \/ Resume
    \/ CancelBegin
    \/ CancelEnd
    \/ JHandOver
    \/ JPauseLoop
    \/ JTestCancel
    \/ JCallTranslate
    \/ JPrimary
    \/ JFallback

SpecJ == Init /\ [][JNext]_vars

(***************************************************************************)
(* Properties of Translator.translate, checked under SpecT.                *)
(***************************************************************************)
OpenAIModels == {GPT_4O, GPT_4}
GeminiModels == {GEMINI_PRO}

\* The inputs of a translate() that gets as far as its candidates.
TReachesCandidates ==
    /\ t_in.cfg # NoneRec
    /\ Truthy(t_in.text) /\ Strip(t_in.text) # <<>>

\* The model identifier of candidate pos of the configuration.
CandidateModel(pos) ==
    IF pos = 0 THEN t_in.cfg.primary_llm ELSE t_in.cfg.fallback_chain[pos].llm

\* Candidate pos reaches its provider: it names a model of a provider whose
\* credential is present.
ReachesProvider(pos) ==
    \/ CandidateModel(pos) \in OpenAIModels /\ t_in.openai_key = <<"k">>
    \/ CandidateModel(pos) \in GeminiModels /\ t_in.gemini_key = <<"k">>

\* Candidate pos succeeds whenever it is tried / fails on every provider call.
CandidateSucceeds(pos) ==
    /\ ReachesProvider(pos)
    /\ \/ t_in.outcomes[pos] = "ok"
       \/ t_in.outcomes[pos] = "empty" /\ CandidateModel(pos) \in OpenAIModels
FailsAtProvider(pos) == ReachesProvider(pos) /\ ~CandidateSucceeds(pos)

\* C2: every candidate that was attempted and whose provider call fails on
\* every attempt had its provider called exactly max_retries times.
C2_RetryBudget ==
    (t_pc = "done" /\ TReachesCandidates) =>
        \A i \in 1..Len(t_out.attempts) :
            FailsAtProvider(t_out.attempts[i].pos) =>
                t_out.attempts[i].calls = max_retries

\* The error messages that contain "key not provided".
KeyNotProvidedMessages == {"OpenAI API key not provided", "Gemini API key not provided"}

\* The configuration names one model only, of a provider whose credential
\* is empty.
OnlyModelWithoutKey ==
    /\ TReachesCandidates
    /\ t_in.cfg.fallback_chain = <<>>
    /\ \/ t_in.cfg.primary_llm \in OpenAIModels /\ t_in.openai_key = None
       \/ t_in.cfg.primary_llm \in GeminiModels /\ t_in.gemini_key = None

\* C13: when the credential of the only configured model is empty, the
\* translation of a chapter's text fails with an error message (the one
\* the job stores in the chapter, line 284) that contains "key not
\* provided", and no provider call is made.
C13_KeyNotProvidedReported ==
    (t_pc = "done" /\ OnlyModelWithoutKey) =>
        /\ ~t_out.result.success
        /\ t_out.result.error_message \in KeyNotProvidedMessages
        /\ t_out.calls = <<>>

\* The primary model is set and always fails, and of the fallback chain only
\* entry k succeeds.
OnlyKthSucceeds(k) ==
    /\ TReachesCandidates
    /\ Truthy(t_in.cfg.primary_llm)
    /\ ~CandidateSucceeds(0)
    /\ k \in 1..Len(t_in.cfg.fallback_chain)
    /\ \A j \in 1..Len(t_in.cfg.fallback_chain) : CandidateSucceeds(j) <=> j = k

AttemptedPositions == [i \in 1..Len(t_out.attempts) |-> t_out.attempts[i].pos]

\* The positions 0..k / those of them that name a model, in order.
RECURSIVE UpTo(_, _)
UpTo(j, k) == IF j > k THEN <<>> ELSE <<j>> \o UpTo(j + 1, k)
RECURSIVE SetUpTo(_, _)
SetUpTo(j, k) ==
    IF j > k THEN <<>>
    ELSE IF Truthy(CandidateModel(j)) THEN <<j>> \o SetUpTo(j + 1, k)
         ELSE SetUpTo(j + 1, k)

\* C3 as stated: with an always failing primary and only the k-th fallback
\* entry succeeding, the attempts are the primary and then the entries 1..k,
\* in that order and no other, and the result is a success whose model_used
\* is the k-th entry's model.
C3_AttemptsAllEntriesUpToK ==
    t_pc = "done" =>
        \A k \in 1..MaxChain :
            OnlyKthSucceeds(k) =>
                /\ AttemptedPositions = UpTo(0, k)
                /\ t_out.result.success
                /\ t_out.result.model_used = CandidateModel(k)

\* C3 amended: the same, the attempts being the primary and then those of
\* the entries 1..k whose model identifier is set.
C3_FallbackOrdering ==
    t_pc = "done" =>
        \A k \in 1..MaxChain :
            OnlyKthSucceeds(k) =>
                /\ AttemptedPositions = SetUpTo(0, k)
                /\ t_out.result.success
                /\ t_out.result.model_used = CandidateModel(k)

\* C3 witness: a finished translate() whose primary failed, whose first
\* fallback entry was attempted and failed, whose second succeeded.
C3_Witness ==
    /\ t_pc = "done"
    /\ OnlyKthSucceeds(2)
    /\ Truthy(CandidateModel(1))
    /\ Len(t_out.attempts) = 3

\* The text given to translate() is None, empty or made of blanks.
TextIsBlank == ~Truthy(t_in.text) \/ Strip(t_in.text) = <<>>
ConfigAbsent == t_in.cfg = NoneRec

\* C31: a translate() given a text that is None, empty or all blanks, or no
\* configuration, returns a failure whose message says which ("Empty text
\* provided", "No configuration provided"), attempts no candidate and makes
\* no provider call.
C31_RejectsBlankTextOrNoConfig ==
    (t_pc = "done" /\ (TextIsBlank \/ ConfigAbsent)) =>
        /\ ~t_out.result.success
        /\ t_out.result.error_message =
               IF TextIsBlank THEN "Empty text provided" ELSE "No configuration provided"
        /\ t_out.attempts = <<>>
        /\ t_out.calls = <<>>

\* C31 witness: a finished translate() of a text of blanks under a
\* configuration whose primary model would have reached its provider and
\* succeeded.
C31_Witness ==
    /\ t_pc = "done"
    /\ t_in.text = <<" ", " ">>
    /\ ~ConfigAbsent
    /\ CandidateSucceeds(0)
    /\ ~t_out.result.success
    /\ t_out.calls = <<>>

\* The model identifier has one of the prefixes _attempt_translation knows.
RecognizedPrefix(model) == model \in OpenAIModels \cup GeminiModels

\* The attempt returned a TranslationResult: a success without an error
\* message or a failure with one.
IsOutcome(a) == a.success \in BOOLEAN /\ (a.success <=> a.error = NoneMsg)

\* C32: every call of _attempt_translation made by a translate() returned an
\* outcome, and the call for a model identifier whose prefix is not
\* recognised returned the failure "Unsupported model" without a provider
\* call.
C32_AttemptReturnsOutcome ==
    t_pc = "done" =>
        \A i \in 1..Len(t_out.attempts) :
            LET a == t_out.attempts[i]
            IN  /\ IsOutcome(a)
                /\ ~RecognizedPrefix(a.model) =>
                      ~a.success /\ a.error = "Unsupported model" /\ a.calls = 0

\* C32 witness: a finished translate() whose primary model has a prefix that
\* is not recognised and whose first fallback entry then called its provider.
C32_Witness ==
    /\ t_pc = "done"
    /\ Len(t_out.attempts) >= 2
    /\ t_out.attempts[1].model = CLAUDE
    /\ t_out.attempts[1].error = "Unsupported model"
    /\ t_out.attempts[2].calls = 1

\* The positions of the fallback entries whose model identifier is unset.
UnsetEntries ==
    { i \in 1..Len(t_in.cfg.fallback_chain) : ~Truthy(CandidateModel(i)) }
\* The candidates that succeed when tried.
Succeeding ==
    { pos \in 0..Len(t_in.cfg.fallback_chain) :
          Truthy(CandidateModel(pos)) /\ CandidateSucceeds(pos) }
\* The position at which translate() stops: the first succeeding candidate,
\* or the end of the chain.
LastTried ==
    IF Succeeding = {} THEN Len(t_in.cfg.fallback_chain)
    ELSE CHOOSE pos \in Succeeding : \A q \in Succeeding : pos <= q

AggregateFailure ==
    TranslationResult(FALSE, NoneRec,
        "All translation attempts failed. Check your API keys and model availability.",
        None)

\* C33: in a translate() whose fallback chain has an entry without a model,
\* that entry is not attempted and no provider call is made for it, the
\* entries after it are tried as if it were not there, and when no candidate
\* succeeds the result is the aggregate failure, whose model_used is None.
C33_UnsetEntrySkipped ==
    (t_pc = "done" /\ TReachesCandidates /\ UnsetEntries # {}) =>
        /\ \A i \in 1..Len(t_out.attempts) : t_out.attempts[i].pos \notin UnsetEntries
        /\ AttemptedPositions = SetUpTo(0, LastTried)
        /\ Len(t_out.calls) <= Len(t_out.attempts)
        /\ Succeeding = {} =>
              t_out.result = AggregateFailure /\ t_out.result.model_used = None

\* C33 witness: a finished translate() whose primary failed, whose first
\* fallback entry has no model and whose second was attempted, called its
\* provider and failed: the result is the aggregate failure.
C33_Witness ==
    /\ t_pc = "done"
    /\ TReachesCandidates
    /\ Len(t_in.cfg.fallback_chain) = 2
    /\ UnsetEntries = {1}
    /\ AttemptedPositions = <<0, 2>>
    /\ t_out.attempts[2].calls = 1
    /\ t_out.result = AggregateFailure

\* Fallback entry i has no prompt: the key is absent or its value is empty.
EntryPromptEmpty(i) ==
    LET entry == t_in.cfg.fallback_chain[i]
    IN  "prompt" \notin DOMAIN entry \/ ~Truthy(entry.prompt)

\* C34: every attempt of a fallback entry without a prompt (absent or empty)
\* that called its provider called it with the primary prompt.
C34_EmptyPromptIsPrimaryPrompt ==
    t_pc = "done" =>
        \A i \in 1..Len(t_out.attempts) :
            LET a == t_out.attempts[i]
            IN  (a.pos >= 1 /\ EntryPromptEmpty(a.pos) /\ a.calls >= 1)
                    => a.prompt = t_in.cfg.prompt

(***************************************************************************)
(* Properties of the orchestrator, checked under Spec.                     *)
(***************************************************************************)
\* No coordinator thread is alive and the last run, if any, is over.
RunOver == co_pc = "idle" /\ runs > 0
Dispatched == { c \in Chapters : job[c] \in Active \cup {"done"} }
CompletedAtStart == { c \in 1..Len(at_start) : at_start[c].status = "completed" }
NoCallbackRaised == \A c \in Chapters : cb_raised[c] = "none"

\* C1: once a cancel_translation() made during a run has returned, no
\* chapter's status changes from pending to in_progress.
C1_NoStartAfterCancel ==
    [][\A c \in Loaded :
          (cancel_returned /\ chapters[c].status = "pending")
              => chapters'[c].status # "in_progress"]_vars

\* C4: completed_chapters + failed_chapters never exceeds total_chapters.
C4_CountersWithinTotal == completed_chapters + failed_chapters <= total_chapters

\* C5: when a run has ended Completed, without a cancel request (and without
\* the callback having raised for a chapter), completed_chapters +
\* failed_chapters equals total_chapters.
C5_CountersAddUp ==
    (RunOver /\ run_state = "Completed" /\ ~should_cancel /\ NoCallbackRaised)
        => completed_chapters + failed_chapters = total_chapters

\* C6: a chapter that is completed when start_translation is called is
\* not dispatched in that run: no job is submitted for it, it gets no
\* progress event and no provider call, its record (status, translated_text,
\* model_used) stays as it was, and failed_chapters counts only chapters
\* that were not completed at the start.
C6_CompletedChaptersSkipped ==
    /\ \A c \in CompletedAtStart :
          /\ job[c] = "none"
          /\ c \notin Dispatched
          /\ chapter_events[c] = <<>>
          /\ provider_calls[c] = 0
          /\ chapters[c] = at_start[c]
    /\ NoCallbackRaised =>
          failed_chapters <= Cardinality((1..Len(at_start)) \ CompletedAtStart)

\* C6 witness: a second run over a list with a completed chapter has
\* dispatched and completed another chapter.
C6_Witness ==
    /\ runs = 2
    /\ run_state = "Completed"
    /\ CompletedAtStart # {}
    /\ \E d \in Loaded \ CompletedAtStart :
          job[d] = "done" /\ chapters[d].status = "completed"

\* C7: a start_translation on a list with completed chapters, after an
\* earlier run, does not decrease completed_chapters.
C7_CompletedCountKept ==
    [][(runs >= 1 /\ runs' = runs + 1 /\ \E c \in Loaded : chapters[c].status = "completed")
          => completed_chapters' >= completed_chapters]_vars

\* C8: during a run no more than max_concurrent_chapters chapters have the
\* status in_progress.
C8_InProgressWithinLimit ==
    is_running => Cardinality(InProgress) <= max_concurrent_chapters

\* The final status of chapter c, and the counters, that the chapters at the
\* start, the provider's behaviour and the callback's behaviour determine in
\* a run that is not cancelled.
Translates(c) == c \in Dispatched /\ cb_raised[c] # "in_progress"
\* The outcome of the provider call for c's primary model, "none" if none was made.
Outcome(c) == behav[c][0]
\* The provider call for c's primary model was made and gave a success / a failure.
PrimarySucceeded(c) ==
    \/ Outcome(c) = "ok"
    \/ Outcome(c) = "empty" /\ StoredConfig.primary_llm \in OpenAIModels
PrimaryFailed(c) == Outcome(c) # "none" /\ ~PrimarySucceeded(c)
ExpectedStatus(c) ==
    IF c \in CompletedAtStart THEN "completed"
    ELSE IF cb_raised[c] # "none" THEN "error"
    ELSE IF PrimarySucceeded(c) THEN "completed"
    ELSE IF PrimaryFailed(c) THEN "error" ELSE "pending"
ExpectedCompleted == Cardinality({ c \in Loaded : Translates(c) /\ PrimarySucceeded(c) })
ExpectedFailed ==
    Cardinality({ c \in Loaded : Translates(c) /\ PrimaryFailed(c) })
    + Cardinality({ c \in Loaded : cb_raised[c] # "none" })

\* C9: every chapter that was not completed at the start has been translated
\* (or has had its callback raise), and a run that ends Completed has the counters and the final statuses
\* that the chapter list and the per-chapter outcomes determine, whether or
\* not pause_translation and resume_translation were called during it.
C9_PauseResumeSameOutcome ==
    (RunOver /\ run_state = "Completed") =>
        /\ \A c \in Loaded \ CompletedAtStart : Outcome(c) # "none" \/ cb_raised[c] # "none"
        /\ \A c \in Loaded : chapters[c].status = ExpectedStatus(c)
        /\ completed_chapters = ExpectedCompleted
        /\ failed_chapters = ExpectedFailed

\* C9 witness: a run of two chapters, paused and resumed, has ended with one
\* chapter completed and one failed.
C9_Witness ==
    /\ RunOver
    /\ run_state = "Completed"
    /\ resumed
    /\ NoCallbackRaised
    /\ completed_chapters = 1
    /\ failed_chapters = 1

\* C10: is_running is false before any start_translation and whenever no
\* run is under way.
C10_NotRunningWhenIdle == co_pc = "idle" => ~is_running

\* C11: while the orchestrator is idle and no configuration can be resolved
\* for the active configuration name, or no chapters are loaded, no step
\* (so no start_translation) starts a run: is_running, the counters, the
\* signals and the events stay as they are and no coordinator thread starts.
C11_NoRunWithoutConfigOrChapters ==
    [][(/\ ~is_running
        /\ co_pc = "idle"
        /\ GetConfig(active_config_name) = NoneRec \/ chapters = <<>>)
          => /\ ~is_running'
             /\ co_pc' = "idle"
             /\ runs' = runs
             /\ UNCHANGED <<total_chapters, completed_chapters, failed_chapters,
                            is_paused, should_cancel, run_events>>]_vars

\* C12: while is_running is true no step starts a run: a start_translation
\* called then can only be the one that returns False ("s60"), which leaves
\* total, the counters and the signals as they are, and no second
\* coordinator thread starts.
C12_StartRejectedWhileRunning ==
    [][is_running =>
          /\ runs' = runs
          /\ total_chapters' = total_chapters
          /\ (co_pc' = "c111" => co_pc = "c111")
          /\ (ui_pc = "idle" /\ ui_pc' = "s60") =>
                UNCHANGED <<is_running, is_paused, should_cancel, total_chapters,
                            completed_chapters, failed_chapters, co_pc, job,
                            run_events, chapter_events>>]_vars

\* C12 witness: start_translation was called during a run that has completed
\* a chapter and is still under way, and is returning False.
C12_Witness ==
    /\ ui_pc = "s60"
    /\ is_running
    /\ co_pc \notin {"idle", "c224"}
    /\ completed_chapters > 0

\* C15: a pause_translation, resume_translation or cancel_translation that
\* is called while no run is under way (no coordinator thread, and the step
\* is not a start) leaves the pause signal, the cancel signal, the counters
\* and every chapter's status as they are.
C15_ControlsNoOpWithoutRun ==
    [][(co_pc = "idle" /\ ui_pc = "idle" /\ runs' = runs)
          => /\ UNCHANGED <<is_paused, should_cancel, total_chapters,
                            completed_chapters, failed_chapters>>
             /\ \A c \in Loaded : chapters'[c].status = chapters[c].status]_vars

\* C16: once the complete event of a run has been delivered it is the last
\* of the run's events: no status or error event follows it, no job is left
\* that could deliver a progress event, and no error event came before it.
C16_CompleteIsLastEvent ==
    \A i \in 1..Len(run_events) :
        run_events[i] = "complete" =>
            /\ i = Len(run_events)
            /\ \A j \in 1..i : run_events[j] # "error"
            /\ \A c \in Chapters : job[c] \notin Active \cup {"queued"}

\* C17: once a cancel request has been made during a run (while is_running
\* is true), the run does not end Completed: no complete event is emitted
\* after the request.
C17_NoCompleteAfterCancel ==
    [][(should_cancel /\ runs' = runs /\ run_state # "Completed")
          => run_state' # "Completed"]_vars

\* C19: a run that has ended Completed or Cancelled has written the project
\* manifest exactly once.
C19_ManifestWrittenOnce ==
    (RunOver /\ run_state \in {"Completed", "Cancelled"}) => manifests = 1

\* C20: the progress events of a chapter in one run are an in_progress event
\* first and then at most one terminal event, completed or error.
C20_ChapterEventsInOrder ==
    \A c \in Chapters :
        chapter_events[c] \in {<<>>, <<"in_progress">>,
                               <<"in_progress", "completed">>,
                               <<"in_progress", "error">>}

\* C20 witness: in one run a chapter has had its in_progress and completed
\* events and another its in_progress and error events.
C20_Witness ==
    \E c, d \in Loaded :
        /\ chapter_events[c] = <<"in_progress", "completed">>
        /\ chapter_events[d] = <<"in_progress", "error">>

\* The chapters that were pending when the run started, and the scenario of
\* C14 seen at the end of a run: the coordinator has finished, the chapters at
\* the start were pending or completed, no provider call for a primary model
\* failed, and neither pause nor cancel was issued.
PendingAtStart == { c \in 1..Len(at_start) : at_start[c].status = "pending" }
AllSucceedScenario ==
    /\ RunOver /\ ~is_running
    /\ config # NoneRec
    /\ \A c \in 1..Len(at_start) : at_start[c].status \in {"pending", "completed"}
    /\ \A c \in PendingAtStart : ~PrimaryFailed(c)
    /\ is_paused /\ ~resumed
    /\ ~should_cancel /\ ~cancel_returned

\* What C14 promises at the end of the run: completed_chapters = N,
\* failed_chapters = 0, one in_progress and one completed event per chapter,
\* and a last event complete carrying progress_percentage 100.
AllSucceeded ==
        /\ completed_chapters = Cardinality(PendingAtStart)
        /\ failed_chapters = 0
        /\ \A c \in PendingAtStart :
              chapter_events[c] = <<"in_progress", "completed">>
        /\ run_events # <<>>
        /\ run_events[Len(run_events)] = "complete"
        /\ progress_percentage = CompleteProgress

\* The callback returned normally from every event of the run: no chapter
\* event raised and the coordinator's except clause sent no error event.
CallbackReturned ==
    /\ NoCallbackRaised
    /\ \A i \in 1..Len(run_events) : run_events[i] # "error"

RunEndsUnlessPausedOrCancelled ==
    (co_pc = "c111") ~> (co_pc = "idle" \/ ~is_paused \/ should_cancel)

WaitingWorkersGiveUp ==
    \A c \in Loaded :
        (should_cancel /\ job[c] \in {"w239", "w244"})
            => /\ job'[c] \in {"w239", "w244", "done"}
               /\ chapters'[c].status = chapters[c].status

\* cancel_translation() has set the cancel signal (line 102) in a run that
\* is paused.
CancelledWhilePaused == should_cancel /\ ~is_paused /\ co_pc # "idle"

AllowedTransitions ==
    { <<"pending", "in_progress">>, <<"in_progress", "completed">>,
      <<"in_progress", "error">> }

\* C21: every change of a chapter's status, over any sequence of runs on the
\* same chapters, is pending -> in_progress, in_progress -> completed or
\* in_progress -> error.
C21_StatusTransitions ==
    [][\A c \in Loaded :
          chapters'[c].status # chapters[c].status
              => <<chapters[c].status, chapters'[c].status>> \in AllowedTransitions]_vars


\* C22: a chapter's translated_text is not None exactly when its status is
\* completed.
C22_TextIffCompleted ==
    \A c \in Loaded :
        chapters[c].translated_text # NoneRec <=> chapters[c].status = "completed"

\* Positions of a job that has not started (not submitted, queued, its future
\* cancelled) or has started and not yet passed the cancel test at 244.
NotStarted == {"none", "queued", "cancelled"}
BeforeCancelTest == NotStarted \cup {"w239", "w244"}

\* Once the cancel signal is set, a job that has not started stays without
\* effect: it never gets past the cancel test, and its chapter, its events,
\* its files and its provider calls stay as they are.
AbandonedWithoutEffect ==
    \A c \in Loaded :
        (should_cancel /\ job[c] \in NotStarted)
            => /\ job'[c] \in BeforeCancelTest
               /\ chapters'[c] = chapters[c]
               /\ chapter_events'[c] = chapter_events[c]
               /\ provider_calls'[c] = provider_calls[c]
               /\ (c \in files') = (c \in files)

\* A counter is incremented only by the step of a job that is recording its
\* chapter's outcome (260-285) or is in the except clause (296-302).
CountedByRecordingJob ==
    (runs' = runs /\ <<completed_chapters, failed_chapters>>'
                        # <<completed_chapters, failed_chapters>>)
        => \E d \in Loaded : job[d] \in {"w260", "w296"} /\ job'[d] # job[d]

\* The chapters a run is going to submit (126-130, 151) include every chapter
\* that is pending.
PendingDispatchedAgain ==
    (co_pc = "c111" /\ co_pc' = "c151")
        => \A c \in Loaded :
              chapters[c].status = "pending"
                  => \E i \in 1..Len(todo') : todo'[i] = c

Paused == is_running /\ ~is_paused /\ ~should_cancel

\* C24: while the run is paused no chapter goes from pending to in_progress.
C24_NoStartWhilePaused ==
    [][\A c \in Loaded :
          (Paused /\ chapters[c].status = "pending")
              => chapters'[c].status # "in_progress"]_vars

(***************************************************************************)
(* Properties of one job and its translate(), checked under SpecJ.         *)
(***************************************************************************)
\* translate() taken candidate by candidate returns what Translate computes.
StepwiseTranslateAgrees ==
    j_pc = "w260" =>
        LET t == Translate(JText, j_in.cfg, LoadApiKeys.openai_api_key,
                           LoadApiKeys.gemini_api_key, j_in.outcomes)
        IN  /\ j_out = t.result
            /\ j_acc.attempts = t.attempts
            /\ j_acc.calls = t.calls

\* pause() has returned and no resume() followed, or cancel() has returned.
Stopped == ~is_paused \/ cancel_returned

\* C25: a worker in the middle of a chapter (it has made a provider call for
\* it) starts no further provider call once pause() or cancel() has returned,
\* until resume() in the pause case.
C25_NoProviderCallWhenStopped ==
    [][(Stopped /\ j_pc \in {"t75", "t86"} /\ Len(j_acc.calls) >= 1)
          => Len(j_acc'.calls) = Len(j_acc.calls)]_vars

(***************************************************************************)
(* Properties of the orchestrator, checked under Spec (continued).         *)
(***************************************************************************)
\* C26: every chapter that a run took up (its in_progress event was sent)
\* and that ends the run with status error has had a progress event with
\* status error.
C26_NoSilentFailure ==
    RunOver =>
        \A c \in Loaded :
            (chapters[c].status = "error" /\ chapter_events[c] # <<>>)
                => \E i \in 1..Len(chapter_events[c]) : chapter_events[c][i] = "error"

\* The last start_translation() failed to create the project directory: the
\* run's first event is the error event of 77-81 (a coordinator's first
\* event is a status event).
DirFailed == run_events # <<>> /\ run_events[1] = "error"

\* C27: when the project directory cannot be created, no chapter is
\* dispatched (no status change, no provider call, no coordinator thread),
\* the error event is the run's only event, and completed_chapters and
\* failed_chapters are zero.
C27_DirFailureDispatchesNothing ==
    DirFailed =>
        /\ co_pc = "idle"
        /\ run_events = <<"error">>
        /\ chapters = at_start
        /\ \A c \in Chapters :
              /\ job[c] = "none"
              /\ chapter_events[c] = <<>>
              /\ provider_calls[c] = 0
        /\ completed_chapters = 0
        /\ failed_chapters = 0

\* C27 witness: after a run that completed a chapter, a second start has
\* failed to create its project directory.
C27_Witness ==
    /\ DirFailed
    /\ runs = 2
    /\ prev_completed > 0


(***************************************************************************)
(* Properties of the orchestrator with a failing disk, checked under       *)
(* SpecFair.                                                               *)
(***************************************************************************)
\* The job of c has recorded a success (it is past line 267).
RecordedSuccess(c) == PrimarySucceeded(c) /\ job[c] \in {"w280", "w296", "done"}
\* The job of c has recorded a success and the chapter's files are not on disk.
WriteFailed(c) == RecordedSuccess(c) /\ c \notin files

\* A chapter whose files could not be written is completed and, once its job
\* has returned, has had its in_progress and completed events (as far as the
\* callback returned normally from them).
WriteFailureKeepsOutcome ==
    \A c \in Loaded :
        (WriteFailed(c) /\ cb_raised[c] = "none")
            => /\ chapters[c].status = "completed"
               /\ job[c] = "done" => chapter_events[c] = <<"in_progress", "completed">>

\* Every chapter whose success was recorded is counted, written or not.
WriteFailureIsCounted ==
    completed_chapters = Cardinality({ c \in Loaded : RecordedSuccess(c) })

\* A run that ends with the complete event has run the job of every chapter
\* that was not completed at the start.
OtherChaptersProcessed ==
    (RunOver /\ run_state = "Completed")
        => \A c \in Loaded \ CompletedAtStart : job[c] = "done"

\* C28: a failed write of a translated chapter's files leaves the chapter
\* completed and counted, its completed event is sent, and the run goes on
\* with the other chapters to its end.
C28_WriteFailureSwallowed ==
    /\ [](WriteFailureKeepsOutcome /\ WriteFailureIsCounted /\ OtherChaptersProcessed)
    /\ (\E c \in Loaded : WriteFailed(c)) ~> (co_pc = "idle" \/ Paused)

\* C28 witness: a run of two chapters has ended with the complete event; the
\* files of one chapter could not be written, those of the other were, and
\* both chapters are completed.
C28_Witness ==
    /\ RunOver /\ run_state = "Completed"
    /\ \E c, d \in Loaded :
          /\ WriteFailed(c)
          /\ d \in files
          /\ chapters[c].status = "completed"
          /\ chapters[d].status = "completed"
          /\ completed_chapters = 2


(***************************************************************************)
(* The lock discipline.                                                    *)
(***************************************************************************)
\* Where a job stands just before a "with self.chapters_lock" (247, 260, 298).
LockSites == {"w247", "w260", "w296"}
\* Where a job stands inside the block of line 260 (its callback call at 280
\* or at 293).
InsideLock == {"w280", "w293"}

\* The step is taken by a job that holds the lock while it takes it: it holds
\* the lock already, or it stands at a lock site, finds the lock free and
\* takes it for the step.
WriterHoldsLock ==
    \E c \in Chapters :
        /\ job'[c] # job[c]
        /\ \/ chapters_lock = c
           \/ chapters_lock = 0 /\ job[c] \in LockSites

\* The step writes a status or result field of a loaded chapter, a counter,
\* or a chapter's files.
SharedStateWritten ==
    \/ \E c \in Loaded : chapters'[c] # chapters[c]
    \/ completed_chapters' # completed_chapters
    \/ failed_chapters' # failed_chapters
    \/ ~(files' \subseteq files)

\* At most one job is inside the block of line 260, and it is the lock's holder.
OneInCriticalSection ==
    /\ Cardinality({ c \in Chapters : job[c] \in InsideLock }) <= 1
    /\ \A c \in Chapters : job[c] \in InsideLock <=> chapters_lock = c

\* C29: every step that writes a chapter's status or result fields, a
\* counter or a chapter's files is taken by a thread holding chapters_lock,
\* and at most one thread is inside the critical section.
C29_WritesUnderLock ==
    /\ [][SharedStateWritten => WriterHoldsLock]_vars
    /\ []OneInCriticalSection


(***************************************************************************)
(* A callback that does not return.                                        *)
(***************************************************************************)
\* The job of c is in (or about to enter) the callback call for its
\* completed or error event (280, 293); the call is made inside the block of
\* line 260.
InResultCallback(c) == job[c] \in InsideLock
\* The job of c is in (or about to enter) the callback call for its
\* in_progress event (256), made outside every lock block.
InProgressCallback(c) == job[c] = "w256"
\* The job of d has its translation result and has yet to record it (260).
HasOutcomeToRecord(d) == job[d] = "w260"
\* The job of d can record its outcome now.
CanRecord(d) == ENABLED (JobRecordSuccess(d) \/ JobRecordFailure(d))

\* While a job is in the callback for its in_progress event, every other job
\* with an outcome to record can record it.
InProgressCallbackStallsOnlyItsWorker ==
    \A c, d \in Chapters :
        (c # d /\ InProgressCallback(c) /\ HasOutcomeToRecord(d)) => CanRecord(d)

\* C30: while a job is in the callback for one of its events, every other
\* job with an outcome to record can record it.
C30_BlockedCallbackStallsOnlyItsWorker ==
    \A c, d \in Chapters :
        (c # d /\ (InProgressCallback(c) \/ InResultCallback(c)) /\ HasOutcomeToRecord(d))
            => CanRecord(d)


(***************************************************************************)
(* Counting.                                                               *)
(***************************************************************************)
\* C35: in every state of a run the two counters together count no more
\* than the chapters whose jobs have started: no chapter is counted twice,
\* whatever the callback does.
C35_CountedAtMostOnce ==
    completed_chapters + failed_chapters <= Cardinality(Dispatched)


(***************************************************************************)
(* The end of a run.                                                       *)
(***************************************************************************)
\* No pool job is between its start and its return.
NoWorkerActive == \A c \in Chapters : job[c] \notin Active

\* C36: in every state where is_running is false every worker has finished
\* and no chapter has the status in_progress.
C36_NotRunningNoneInProgress ==
    ~is_running => (NoWorkerActive /\ InProgress = {})

\* C36 witness: a run of two chapters is over, is_running is false again,
\* and both chapters had been in progress in it.
C36_Witness ==
    /\ RunOver
    /\ ~is_running
    /\ Len(chapters) = 2
    /\ \A c \in Loaded : job[c] = "done" /\ chapter_events[c] # <<>>
                         /\ chapter_events[c][1] = "in_progress"


(***************************************************************************)
(* Properties of start_translation called from two threads, checked under  *)
(* SpecS.                                                                  *)
(***************************************************************************)
\* C37: of two calls of start_translation made by two threads on an idle
\* orchestrator at most one returns True, and at most one coordinator thread
\* is alive at any time.
C37_OneStartWins ==
    /\ Cardinality({ t \in Callers : s_ret[t] = "true" }) <= 1
    /\ s_threads <= 1


(***************************************************************************)
(* Cancel followed by pause and resume, checked under SpecFair.            *)
(***************************************************************************)
\* Once cancel is signalled in a run the run ends, whatever pause() and
\* resume() calls follow: no worker stays in the pause loop.
CancelledRunEnds == (should_cancel /\ co_pc # "idle") ~> (co_pc = "idle")

\* Once cancel is signalled no chapter that was not started is started.
NoStartOnceCancelSignalled ==
    \A c \in Loaded :
        (should_cancel /\ chapters[c].status = "pending")
            => chapters'[c].status # "in_progress"

\* C38: once cancel is signalled in a run, every worker that has not started
\* its chapter returns without starting it, and no pause() or resume() after
\* the cancel keeps a worker waiting: the run ends.
C38_CancelOverridesPause ==
    /\ [][NoStartOnceCancelSignalled]_vars
    /\ CancelledRunEnds


(***************************************************************************)
(* The lock and the provider calls.                                        *)
(***************************************************************************)
\* A provider call is made by a job that does not hold the lock.
ProviderCallOutsideLock ==
    \A c \in Chapters :
        provider_calls'[c] > provider_calls[c] => (chapters_lock # c /\ chapters_lock' # c)

\* A job in (or about to enter) its call of _translate_chapter holds no lock.
TranslatingHoldsNoLock == \A c \in Chapters : job[c] = "w256" => chapters_lock # c

\* A job about to take the lock does not hold it.
NoReacquire == \A c \in Chapters : job[c] \in LockSites => chapters_lock # c

\* The holder of the lock is not waiting for anything: it can take its next
\* step, which gives the lock back.
HolderCanStep == \A c \in Chapters : chapters_lock = c => ENABLED JobEmitResult(c)

\* C39: no job makes a provider call while it holds chapters_lock, no job
\* that holds the lock tries to take it, and the holder of the lock can
\* always go on: a provider call that does not return keeps no other job
\* from the lock, and the jobs cannot deadlock on it.
C39_NoProviderCallUnderLock ==
    /\ [][ProviderCallOutsideLock]_vars
    /\ [](TranslatingHoldsNoLock /\ NoReacquire /\ HolderCanStep)

\* C39 witness: one job has made its provider call and has its result to
\* record while another job holds the lock.
C39_Witness ==
    \E c, d \in Loaded :
        /\ c # d
        /\ job[c] = "w260"
        /\ provider_calls[c] >= 1
        /\ chapters_lock = d


(***************************************************************************)
(* Termination, checked under SpecFairPolling.                             *)
(***************************************************************************)
TerminalEvents == {"complete", "status", "error"}

\* The run is over: the coordinator thread has ended, is_running is false
\* and the last event the callback got from the coordinator is the complete
\* event, the "Translation cancelled" status event or an error event.
RunEnded ==
    /\ co_pc = "idle"
    /\ ~is_running
    /\ run_state \in {"Completed", "Cancelled", "Failed"}
    /\ run_events # <<>>
    /\ run_events[Len(run_events)] \in TerminalEvents
    /\ run_state = "Completed" <=> run_events[Len(run_events)] = "complete"

\* Every pause() is eventually followed by resume() or cancel() (or by the
\* end of the run).
EveryPauseAnswered == Paused ~> ~Paused

====
